---- MODULE Spec2Model ----
(***************************************************************************)
(* VM control plane of the virtualization test bench (tools/vmtb):         *)
(*   - QmpMonitor: a background reader thread moves JSON lines from the    *)
(*     management socket onto one queue; every consumer pops that queue;   *)
(*   - GuestAgentBackend: synchronous JSON-line round trips;               *)
(*   - VirtualMachine: poweron, poweroff, reboot, reset, pause, resume,    *)
(*     quit, suspend, wakeup, save_state, load_state on top of the two.    *)
(* The hypervisor process, the guest agent and SIGALRM are the             *)
(* environment. JSON objects are records; a JSON list is a record with the *)
(* single field `list`; the empty object {} is the record EmptyDict.        *)
(***************************************************************************)
EXTENDS Integers, Sequences, FiniteSets, TLC

VARIABLES
    process,                \* VirtualMachine.process: "none", "alive" (poll() is None), "exited"
    terminated,             \* number of process.terminate() calls on the current process
    gaSock, qmpSock,        \* the socket files /tmp/qga<N>.sock, /tmp/mon<N>.sock exist
    migrate_destination_vm, \* VirtualMachine.migrate_destination_vm
    clients,                \* self.ga / self.qm have been constructed
    connected,              \* the running hypervisor holds the connections of self.ga / self.qm
    qmpOut,                 \* commands written to the management socket, not yet handled
    wire,                   \* lines written by the hypervisor, not yet read by the reader thread
    qmp_queue,              \* QmpMonitor.qmp_queue
    written, popped,        \* history: every line written / every message popped, per connection
    recording,              \* whether this behaviour keeps the history written / popped
    pcB,                    \* a second thread calling reset() on the same VM: its position
    reset_event_countB,     \* the second thread's reset_event_count
    popsB,                  \* history: the messages the second thread popped
    lastPop,                \* history: the message popped last
    gaOut,                  \* commands written to the guest-agent socket, not yet handled
    gaWire,                 \* reply lines of the guest agent, not yet read
    jobs,                   \* the hypervisor's job table (never dismissed by this client)
    owed,                   \* events the hypervisor will emit for what it was told to do
    evCount,                \* unsolicited events emitted so far
    gaCount,                \* guest-agent commands handled so far
    op, pc,                 \* the caller: operation in progress and its position
    mode,                   \* suspend's mode argument
    ret,                    \* query_status: ret
    vm_status,              \* the status query_status returned
    reset_event_count,      \* reboot / reset: reset_event_count
    job_status, job_error,  \* save_state / load_state: job_status, job_error
    node_name,              \* save_snapshot / load_snapshot: node_name
    exec_status,            \* execute_wait: exec_status
    pending,                \* exception in flight while a finally block runs
    result,                 \* how the last operation ended: "ok" or the exception raised
    alarm,                  \* a SIGALRM deadline is armed
    expired,                \* the deadline expired during the operation in progress
    nops,                   \* operations completed in this behaviour
    opLog,                  \* history of the operation in progress: the commands sent and
                            \* the messages popped that a wait was for (skipped ones are not kept)
    prev,                   \* history: operation, result and status of the operation before
    \* --- Decorators.timeout_signal on its own
    wpc,                    \* "idle", "func" (inside the wrapped method), "plain" (inside an
                            \* undecorated method)
    wfunc,                  \* the method running
    wargs, wkwargs,         \* timeout_wrapper's *args (self included) and **kwargs
    wouter,                 \* the undecorated method that called execute_wait, or "none"
    timeout,                \* timeout_wrapper's local `timeout`
    itimer,                 \* seconds of the pending SIGALRM timer, 0 when none is pending
    armedBy,                \* history: the call that armed the pending timer
    wcalls,                 \* calls made so far
    wresult,                \* how the last completed call ended
    \* --- Device: VF enabling
    sriov_numvfs,           \* sysfs device/sriov_numvfs
    sriov_drivers_autoprobe, \* sysfs device/sriov_drivers_autoprobe
    dev_op, dev_pc,         \* the Device method in progress and its position
    num, val,               \* create_vf's num, set_drivers_autoprobe's val
    dev_ret,                \* the local `ret` read back last, then the value returned
    nested,                 \* remove_vfs was called by create_vf
    dev_result,             \* how the last Device method ended
    dev_calls,              \* Device methods called so far
    dev_hist,               \* history: the method before, its result, and the VF count
                            \* when the current method was called
    \* --- Device: provisioning
    debugfs,                \* the SR-IOV debugfs attributes: <<gt, function, name>> -> value
    num_gts,                \* what XeDriver.get_num_gts() returns
    has_lmem,               \* what XeDriver.has_lmem() returns
    prov_op,                \* the provisioning method called last
    prov_arg,               \* its argument num_vfs or fn_num (the profile's num_vfs for provision)
    prov_result,            \* how it ended
    prov_calls,             \* provisioning methods called so far
    prov_hist,              \* history: the method before, its argument and its result
    prov_logging,           \* whether this behaviour keeps prov_log
    prov_log,               \* history: the profile of the last provision and the attributes
                            \* the last method wrote
    \* -- VgpuProfileConfigurator
    supported_vgpu_profiles,    \* the definitions read from the profile file
    cfg_call,               \* the last call: method, arguments, what it raised
    cfg_result,             \* what the last call returned
    \* -- GuestAgentBackend
    ga_timeout,             \* self.timeout
    ga_pc,                  \* "none", "idle", or "readline" inside __send
    ga_peer,                \* the agent's end of the socket: "none", "open", "closed"
    ga_tx,                  \* texts written and flushed, not yet handled by the agent
    ga_rx,                  \* lines of the agent not yet read
    ga_call,                \* history: the method, what its __send wrote and read
    ga_ret,                 \* what the last __send returned
    ga_raised,              \* what the last __send raised
    ga_waited,              \* seconds the current readline() has waited
    ga_calls,               \* calls made
    ga_replies,             \* replies given
    \* -- read_file_content / write_file_content
    fc_op, fc_pc,           \* the method and its position
    fc_handle,              \* handle
    fc_exc,                 \* the exception pending while finally runs
    fc_result,              \* "ok" or the exception that left the method
    fc_log,                 \* history: the guest-agent calls of the method
    fc_calls,               \* calls made
    \* -- VmmTestingSetup.teardown
    td                      \* position, locals and history of one teardown

sockVars == <<process, gaSock, qmpSock, migrate_destination_vm, clients, connected>>
procVars == <<sockVars, terminated>>
\* what no operation of the main caller changes
guardVars == <<wpc, wfunc, wargs, wkwargs, wouter, timeout, itimer, armedBy, wcalls, wresult>>
vfVars   == <<sriov_numvfs, sriov_drivers_autoprobe, dev_op, dev_pc, num, val, dev_ret,
             nested, dev_result, dev_calls, dev_hist>>
provVars == <<debugfs, num_gts, has_lmem, prov_op, prov_arg, prov_result, prov_calls,
              prov_hist, prov_logging, prov_log>>
cfgVars  == <<supported_vgpu_profiles, cfg_call, cfg_result>>
gaBackVars == <<ga_timeout, ga_pc, ga_peer, ga_tx, ga_rx, ga_call, ga_ret, ga_raised,
                ga_waited, ga_calls, ga_replies, fc_op, fc_pc, fc_handle, fc_exc,
                fc_result, fc_log, fc_calls>>
tdVars   == <<td>>
later    == <<cfgVars, gaBackVars, tdVars>>
other    == <<guardVars, vfVars, provVars, later>>
aux      == <<recording, pcB, reset_event_countB, popsB, other>>
qmpVars  == <<qmpOut, wire, qmp_queue, written, popped, aux, lastPop>>
gaVars   == <<gaOut, gaWire>>
envVars  == <<jobs, owed, evCount, gaCount>>
loc      == <<mode, ret, vm_status, reset_event_count, job_status, job_error,
              node_name, exec_status>>
locVars  == <<loc, pending>>
ctl      == <<pc, result, alarm, nops>>
ghost    == <<op, expired, opLog, prev>>
callVars == <<ctl, ghost>>
vars     == <<procVars, qmpVars, gaVars, envVars, locVars, callVars>>

\* ------------------------------------------------------------------ bounds
MaxOps    == 2      \* operations one behaviour performs
MaxEvents == 1      \* unsolicited hypervisor events per behaviour
MaxGa     == 5      \* guest-agent commands the agent handles per behaviour

\* -------------------------------------------------------- JSON as it is used
None      == "None"
EmptyDict == [empty |-> TRUE]
IsList(v) == "list" \in DOMAIN v
\* `key in d` for a dict; for a list of dicts a string is never a member
In(k, v)  == ~IsList(v) /\ k \in DOMAIN v
\* d.get(k, default)
Get(d, k, default) == IF k \in DOMAIN d THEN d[k] ELSE default
\* truth value of d.get(k) where the value is an object: None and {} are false
Truthy(d) == d # EmptyDict

Statuses   == {"running", "paused", "suspended"}
JobErrors  == {None, "failed"}

Greeting       == [QMP |-> "greeting"]
RetMsg(v)      == [return |-> v]
StatusMsg(s)   == RetMsg([status |-> s, running |-> (s = "running")])
EventMsg(e)    == [event |-> e, data |-> EmptyDict]
JobEventMsg(s) == [event |-> "JOB_STATUS_CHANGE", data |-> [status |-> s]]
Job(id, t, s, e) == IF e = None THEN [id |-> id, type |-> t, status |-> s]
                    ELSE [id |-> id, type |-> t, status |-> s, error |-> e]
BlockNode      == [drv |-> "qcow2", image |-> [snapshots |-> <<[name |-> "tag1"]>>]] @@
                  ("node-name" :> "node1")

\* exceptions.py: GuestAgentError and AlarmTimeoutError derive from GuestError
IsGuestError(r) == r \in {"GuestError", "GuestAgentError", "AlarmTimeoutError"}

\* ----------------------------------------------------------- QmpMonitor
\* variant: the reader puts a message at the head of the queue
QueuePutFront(q, m) == <<m>> \o q

\* __queue_qmp_output: q.put(qmp_msg)
QueuePut(q, m) == Append(q, m)
\* qmp_queue.get(): the oldest message, which leaves the queue
QueueGet(q) == Head(q)
\* what get() leaves in the queue
QueueRest(q) == Tail(q)

\* query_status, loop body: ret after popping qmp_msg
QueryStatusRet(r, qmp_msg) ==
    IF "return" \in DOMAIN qmp_msg THEN qmp_msg.return ELSE r
\* query_status, loop condition
StatusKnown(r) == In("status", r)

\* get_qmp_event
get_qmp_event(qmp_msg) == Get(qmp_msg, "event", "")

\* get_qmp_event_job
get_qmp_event_job(qmp_msg) ==
    IF Get(qmp_msg, "event", None) = "JOB_STATUS_CHANGE"
    THEN Get(Get(qmp_msg, "data", EmptyDict), "status", "")
    ELSE ""

\* query_jobs: the for loop over ret from index i, cur = <<job_status, job_error>> so far
RECURSIVE JobsScan(_, _, _, _)
JobsScan(items, requested_type, i, cur) ==
    IF i > Len(items) THEN cur
    ELSE LET param == items[i]
             new   == <<Get(param, "status", None), Get(param, "error", None)>>
         IN IF Get(param, "type", None) = requested_type THEN new
            ELSE JobsScan(items, requested_type, i + 1, new)

\* query_jobs after its single qmp_queue.get(): <<job_status, job_error, exception>>.
\* Iterating a non-empty dict yields its keys, and str has no get().
query_jobs(qmp_msg, requested_type) ==
    IF "return" \in DOMAIN qmp_msg
    THEN LET r == qmp_msg.return
         IN IF IsList(r) THEN JobsScan(r.list, requested_type, 1, <<"", "">>) \o <<"">>
            ELSE IF r = EmptyDict THEN <<"", "", "">>
            ELSE <<"", "", "AttributeError">>
    ELSE <<"", "", "">>

\* __query_snapshot: node_name of the first qcow2 block, from index i
RECURSIVE BlockScan(_, _)
BlockScan(items, i) ==
    IF i > Len(items) THEN ""
    ELSE IF Get(items[i], "drv", None) = "qcow2" THEN Get(items[i], "node-name", None)
    ELSE BlockScan(items, i + 1)

\* __query_snapshot after its single qmp_queue.get(): <<node_name, exception>>
query_snapshot(qmp_msg) ==
    IF "return" \in DOMAIN qmp_msg
    THEN LET r == qmp_msg.return
         IN IF IsList(r) THEN <<BlockScan(r.list, 1), "">>
            ELSE IF r = EmptyDict THEN <<"", "">>
            ELSE <<"", "AttributeError">>
    ELSE <<"", "">>

\* ------------------------------------------------------------ environment
\* The hypervisor writes one line to the management socket.
HvWrite(ms) ==
    /\ wire' = wire \o ms
    /\ written' = IF recording THEN written \o ms ELSE written

\* What the hypervisor answers to a command, and the job a snapshot command creates.
HvAnswers(c) ==
    CASE c.execute = "query-status" -> {<<StatusMsg(s)>> : s \in Statuses}
      [] c.execute = "query-jobs" -> {<<RetMsg([list |-> jobs])>>}
      [] c.execute = "query-named-block-nodes" -> {<<RetMsg([list |-> <<BlockNode>>])>>}
      [] c.execute \in {"snapshot-save", "snapshot-load"} ->
            {<<JobEventMsg("created"), RetMsg(EmptyDict)>>}
      [] OTHER -> {<<RetMsg(EmptyDict)>>}

\* The events a command of the management protocol causes: the two RESET events
\* reset() waits for, WAKEUP, SHUTDOWN.
Caused(c) ==
    CASE c.execute = "system_reset" -> <<"RESET", "RESET">>
      [] c.execute = "system_wakeup" -> <<"WAKEUP">>
      [] c.execute = "quit" -> <<"SHUTDOWN">>
      [] OTHER -> <<>>

\* The events a guest-agent command causes when the guest carries it out.
GaCaused(c) ==
    CASE c.execute = "guest-suspend-ram" -> <<"SUSPEND">>
      [] c.execute = "guest-shutdown" ->
            IF c.arguments.mode = "reboot" THEN <<"RESET", "RESET">> ELSE <<"SHUTDOWN">>
      [] OTHER -> <<>>

\* The hypervisor handles the oldest pending command.
HvRespond ==
    /\ process = "alive" /\ connected /\ qmpOut # <<>>
    /\ LET c == Head(qmpOut) IN
        /\ \E ms \in HvAnswers(c) : HvWrite(ms)
        /\ jobs' = IF c.execute \in {"snapshot-save", "snapshot-load"}
                   THEN Append(jobs, Job(c.arguments["job-id"], c.execute, "running", None))
                   ELSE jobs
        /\ owed' = owed \o Caused(c)
    /\ qmpOut' = Tail(qmpOut)
    /\ UNCHANGED <<procVars, qmp_queue, popped, aux, lastPop, gaVars, evCount, gaCount, locVars, callVars>>

\* The running job concludes, with or without an error.
HvJobConclude ==
    /\ process = "alive" /\ connected
    /\ \E i \in DOMAIN jobs :
        /\ jobs[i].status = "running"
        /\ \E e \in JobErrors :
              jobs' = [jobs EXCEPT ![i] = Job(jobs[i].id, jobs[i].type, "concluded", e)]
    /\ HvWrite(<<JobEventMsg("concluded")>>)
    /\ UNCHANGED <<procVars, qmpOut, qmp_queue, popped, aux, lastPop, gaVars, owed, evCount,
                   gaCount, locVars, callVars>>

\* The hypervisor emits the next event it owes.
HvEmit ==
    /\ process = "alive" /\ connected /\ owed # <<>>
    /\ HvWrite(<<EventMsg(Head(owed))>>)
    /\ owed' = Tail(owed)
    /\ UNCHANGED <<procVars, qmpOut, qmp_queue, popped, aux, lastPop, gaVars, jobs, evCount,
                   gaCount, locVars, callVars>>

\* An event of the guest or the machine nobody asked for, at any time.
HvEvent(e) ==
    /\ process = "alive" /\ connected /\ evCount < MaxEvents
    /\ HvWrite(<<EventMsg(e)>>)
    /\ evCount' = evCount + 1
    /\ UNCHANGED <<procVars, qmpOut, qmp_queue, popped, aux, lastPop, gaVars, jobs, owed,
                   gaCount, locVars, callVars>>

\* The hypervisor creates its server sockets after start, one after the other.
HvCreateSockets ==
    /\ process = "alive" /\ ~(gaSock /\ qmpSock)
    /\ \/ gaSock' = TRUE /\ UNCHANGED qmpSock
       \/ qmpSock' = TRUE /\ UNCHANGED gaSock
    /\ UNCHANGED <<process, terminated, migrate_destination_vm, clients, connected, qmpVars,
                   gaVars, envVars, locVars, callVars>>

\* The hypervisor process exits (guest shutdown, quit, SIGTERM, crash); a clean
\* exit unlinks the socket files, an unclean one leaves them.
ProcExit(keepGa, keepQmp) ==
    /\ process = "alive"
    /\ process' = "exited"
    /\ gaSock' = (gaSock /\ keepGa)
    /\ qmpSock' = (qmpSock /\ keepQmp)
    /\ UNCHANGED <<terminated, migrate_destination_vm, clients, connected, qmpVars, gaVars,
                   envVars, locVars, callVars>>

\* Replies of the guest agent: none for a command that has no reply on success.
GaReplies(c) ==
    CASE c.execute = "guest-ping" -> {<<[return |-> EmptyDict]>>, <<[error |-> "GenericError"]>>}
      [] c.execute = "guest-exec" -> {<<[return |-> [pid |-> 1]]>>, <<[error |-> "GenericError"]>>}
      [] c.execute = "guest-exec-status" ->
            {<<[return |-> [exited |-> TRUE, exitcode |-> x]]>> : x \in {0, 1}}
            \cup {<<[return |-> [exited |-> FALSE]]>>, <<[error |-> "GenericError"]>>}
      [] OTHER -> {<<>>, <<[error |-> "GenericError"]>>}

\* The guest agent handles the oldest pending command.
AgentReply ==
    /\ process = "alive" /\ connected /\ gaOut # <<>> /\ gaCount < MaxGa
    /\ \E r \in GaReplies(Head(gaOut)) :
          /\ gaWire' = gaWire \o r
          /\ owed' = IF r = <<>> THEN owed \o GaCaused(Head(gaOut)) ELSE owed
    /\ gaOut' = Tail(gaOut)
    /\ gaCount' = gaCount + 1
    /\ UNCHANGED <<procVars, qmpVars, jobs, evCount, locVars, callVars>>

\* __queue_qmp_output: the reader thread reads the next line and queues it.
Reader ==
    /\ clients /\ wire # <<>>
    /\ qmp_queue' = QueuePut(qmp_queue, Head(wire))
    /\ wire' = Tail(wire)
    /\ UNCHANGED <<procVars, qmpOut, written, popped, aux, lastPop, gaVars, envVars, locVars, callVars>>

\* ------------------------------------------------------- caller: helpers
Decorated == {"poweron", "poweroff", "save_state", "load_state"}   \* @Decorators.timeout_signal
Operations == Decorated \cup {"reboot", "reset", "pause", "resume", "quit", "suspend", "wakeup"}
SuspendModes == {"mem", "disk"}                                   \* SuspendMode.ACPI_S3 / ACPI_S4

\* is_running(): process is set and poll() is None
is_running == process = "alive"
\* __sockets_exists()
sockets_exists == gaSock /\ qmpSock
\* a write to a socket whose peer is gone raises BrokenPipeError
PeerOpen == process = "alive" /\ connected

\* positions inside the try block of poweron / poweroff
PoweronTry  == {"poweron_sockets", "query_status_get", "check_status"}
PoweroffTry == {"poweroff", "ga_ping_recv", "wait_event"}

Goto(p)    == pc' = p /\ UNCHANGED <<result, alarm, nops>>
\* the operation ends; timeout_wrapper's finally cancels the alarm
EndOp(res) == pc' = "idle" /\ result' = res /\ alarm' = FALSE /\ nops' = nops + 1
Step(p)    == Goto(p) /\ UNCHANGED <<terminated, pending>>
Return(res) == EndOp(res) /\ UNCHANGED <<terminated, pending>>

\* variant: the handler raises without terminating the process
PoweronExceptKeep == EndOp("GuestError") /\ UNCHANGED <<terminated, pending>>

\* poweron's handler: except Exception -> terminate, raise GuestError
PoweronExcept == terminated' = terminated + 1 /\ EndOp("GuestError") /\ UNCHANGED pending

\* poweroff's handlers: except AlarmTimeoutError -> terminate; then the finally block
PoweroffExcept(exc) ==
    /\ pc' = "poweroff_communicate" /\ UNCHANGED <<result, nops>>
    /\ IF exc = "AlarmTimeoutError"
       THEN terminated' = terminated + 1 /\ pending' = "" /\ alarm' = FALSE
       ELSE UNCHANGED <<terminated, alarm>> /\ pending' = exc

\* An exception raised at the current position reaches the innermost handler.
Throw(exc) ==
    IF op = "poweron" /\ pc \in PoweronTry THEN PoweronExcept
    ELSE IF op = "poweroff" /\ pc \in PoweroffTry THEN PoweroffExcept(exc)
    ELSE EndOp(exc) /\ UNCHANGED <<terminated, pending>>

Log(e)    == opLog' = Append(opLog, e)
Sent(c)   == [k |-> "qmp", c |-> c]
GaSent(c) == [k |-> "ga", c |-> c]
Popped(m) == [k |-> "pop", m |-> m]

Cmd(e) == [execute |-> e]
CmdArgs(e, a) == [execute |-> e, arguments |-> a]

\* json.dump(cmd, sockf); sockf.flush() on the management socket, then go to p;
\* `pre` is what the step did before (for the history)
QmpSend(cs, p, pre) ==
    IF PeerOpen
    THEN /\ qmpOut' = qmpOut \o cs
         /\ opLog' = opLog \o pre \o [i \in DOMAIN cs |-> Sent(cs[i])]
         /\ Step(p)
    ELSE /\ UNCHANGED qmpOut
         /\ opLog' = opLog \o pre
         /\ Throw("BrokenPipeError")

\* the same on the guest-agent socket
GaSend(c, p, pre) ==
    IF PeerOpen
    THEN /\ gaOut' = Append(gaOut, c)
         /\ opLog' = opLog \o pre \o <<GaSent(c)>>
         /\ Step(p)
    ELSE /\ UNCHANGED gaOut
         /\ opLog' = opLog \o pre
         /\ Throw("BrokenPipeError")

\* qmp_queue.get() blocks until a message is queued
QmpPop ==
    /\ qmp_queue # <<>>
    /\ qmp_queue' = QueueRest(qmp_queue)
    /\ popped' = IF recording THEN Append(popped, QueueGet(qmp_queue)) ELSE popped
    /\ lastPop' = QueueGet(qmp_queue)

\* sockf.readline() of __send: a line, or '' at end of file, which json.loads rejects
GaLineReady == gaWire # <<>> \/ process = "exited"
GaAtEof     == gaWire = <<>>

\* ------------------------------------------- Decorators.timeout_signal
\* The decorator on its own: what the wrapped method does is left open (it returns,
\* raises, or blocks until the alarm), the wrapper is modelled statement by statement.
MaxCalls   == 3     \* calls one behaviour makes
MaxTimeout == 2     \* the timeouts a caller passes are 1..MaxTimeout
DEFAULT_TIMEOUT == 1200

Timeouts == 1..MaxTimeout
Pid == "pid"
\* the methods carrying @Decorators.timeout_signal
GuardedFuncs == {"poweron", "poweroff", "execute_wait", "ping", "save_state", "load_state"}
\* undecorated methods; the last three call self.execute_wait(pid)
PlainFuncs == {"reset", "pause", "execute_signal", "dir_exists", "link_exists"}
CallsExecuteWait == {"execute_signal", "dir_exists", "link_exists"}

\* the ways a caller can invoke a decorated method: (*args, **kwargs)
ArgForms(f) ==
    IF f = "ping"
    THEN {<<<<"self">>, EmptyDict>>}
         \cup {<<<<"self", t>>, EmptyDict>> : t \in Timeouts}
         \cup {<<<<"self">>, [timeout |-> t]>> : t \in Timeouts}
    ELSE IF f = "execute_wait"
    THEN {<<<<"self", Pid>>, EmptyDict>>}
         \cup {<<<<"self", Pid, t>>, EmptyDict>> : t \in Timeouts}
         \cup {<<<<"self", Pid>>, [timeout |-> t]>> : t \in Timeouts}
    ELSE {<<<<"self">>, EmptyDict>>}

\* position of the parameter `timeout` in the method's signature (self is 1), 0 if none:
\* ping(self, timeout=DEFAULT_TIMEOUT), execute_wait(self, pid, timeout=DEFAULT_TIMEOUT)
TimeoutParam(f) == IF f = "ping" THEN 2 ELSE IF f = "execute_wait" THEN 3 ELSE 0

\* the value the method's parameter `timeout` is bound to by the call
Supplied(f, args, kwargs) ==
    IF TimeoutParam(f) > 0 /\ Len(args) >= TimeoutParam(f) THEN args[TimeoutParam(f)]
    ELSE IF In("timeout", kwargs) THEN kwargs.timeout
    ELSE DEFAULT_TIMEOUT

\* timeout_wrapper: the timeout it chooses
WrapperTimeout(f, args, kwargs) ==
    IF Len(args) > 2 THEN args[3]
    ELSE IF In("timeout", kwargs) THEN kwargs.timeout
    ELSE DEFAULT_TIMEOUT

GuardInit ==
    /\ wpc = "idle" /\ wfunc = "none" /\ wargs = <<>> /\ wkwargs = EmptyDict
    /\ wouter = "none" /\ timeout = 0 /\ itimer = 0 /\ armedBy = 0
    /\ wcalls = 0 /\ wresult = "none"

\* timeout_wrapper up to the call of func: signal.alarm(timeout) replaces any pending timer
WrapperEnter(f, args, kwargs) ==
    /\ wfunc' = f /\ wargs' = args /\ wkwargs' = kwargs
    /\ timeout' = WrapperTimeout(f, args, kwargs)
    /\ itimer' = timeout'
    /\ wcalls' = wcalls + 1 /\ armedBy' = wcalls'
    /\ wpc' = "func" /\ UNCHANGED wresult

\* variant: the finally block does not cancel the alarm
WrapperLeaveArmed(res) ==
    /\ UNCHANGED itimer
    /\ wresult' = res
    /\ wpc' = IF wouter = "none" THEN "idle" ELSE "plain"
    /\ UNCHANGED <<wfunc, wargs, wkwargs, wouter, timeout, armedBy, wcalls>>

\* timeout_wrapper's finally: signal.alarm(0); control returns to the caller
WrapperLeave(res) ==
    /\ itimer' = 0
    /\ wresult' = res
    /\ wpc' = IF wouter = "none" THEN "idle" ELSE "plain"
    /\ UNCHANGED <<wfunc, wargs, wkwargs, wouter, timeout, armedBy, wcalls>>

\* the test calls a decorated method
GuardedCall(f) ==
    /\ wpc = "idle" /\ wcalls < MaxCalls
    /\ \E a \in ArgForms(f) : WrapperEnter(f, a[1], a[2])
    /\ UNCHANGED wouter

\* the test calls an undecorated method
PlainCall(f) ==
    /\ wpc = "idle" /\ wcalls < MaxCalls
    /\ wpc' = "plain" /\ wfunc' = f /\ wouter' = f
    /\ wargs' = <<"self">> /\ wkwargs' = EmptyDict
    /\ wcalls' = wcalls + 1
    /\ UNCHANGED <<timeout, itimer, armedBy, wresult>>

\* execute_signal / dir_exists / link_exists: self.execute_wait(pid)
NestedCall ==
    /\ wpc = "plain" /\ wfunc \in CallsExecuteWait /\ wcalls < MaxCalls
    /\ WrapperEnter("execute_wait", <<"self", Pid>>, EmptyDict)
    /\ UNCHANGED wouter

\* the wrapped method returns
FuncReturn == wpc = "func" /\ WrapperLeave("ok")
\* the wrapped method raises an exception of its own
FuncRaise == wpc = "func" /\ WrapperLeave("GuestError")

\* the undecorated method returns or raises
PlainEnd ==
    /\ wpc = "plain"
    /\ wpc' = "idle" /\ wouter' = "none"
    /\ \E res \in {"ok", "GuestError"} : wresult' = res
    /\ UNCHANGED <<wfunc, wargs, wkwargs, timeout, itimer, armedBy, wcalls>>

\* SIGALRM: alarm_handler raises AlarmTimeoutError in whatever is running.
\* Inside a decorated method the wrapper re-raises it (ping catches it first and
\* returns False); in an undecorated method it propagates to the test.
alarm_handler ==
    /\ itimer > 0 /\ wpc # "idle"
    /\ IF wpc = "func"
       THEN /\ WrapperLeave(IF wfunc = "ping" THEN "False" ELSE "AlarmTimeoutError")
       ELSE /\ itimer' = 0 /\ wpc' = "idle" /\ wouter' = "none"
            /\ wresult' = "AlarmTimeoutError"
            /\ UNCHANGED <<wfunc, wargs, wkwargs, timeout, armedBy, wcalls>>

\* --------------------------------------------------- Device: VF enabling
\* device.py create_vf / remove_vfs / set_drivers_autoprobe over the two sysfs
\* attributes XeDriver reads and writes. What a write does is the kernel's choice:
\* it is applied, it fails (__write_fs raises HostError), or it returns without
\* the attribute taking the value.
TotalVfs  == 2      \* sriov_totalvfs of the device
MaxDevOps == 2      \* Device methods one behaviour calls

WriteOutcomes == {"applied", "ignored", "error"}
\* value of an attribute after path.write_text(value)
Written(cur, v, outcome) == IF outcome = "applied" THEN v ELSE cur

VfInit ==
    /\ sriov_numvfs = 0 /\ sriov_drivers_autoprobe = 1
    /\ dev_op = "none" /\ dev_pc = "unbound" /\ num = 0 /\ val = FALSE /\ dev_ret = 0
    /\ nested = FALSE /\ dev_result = "none" /\ dev_calls = 0
    /\ dev_hist = [op |-> "none", result |-> "none", vfs |-> 0]

\* Device.__init__: the device is found in whatever state earlier runs left it
DeviceInit ==
    /\ dev_pc = "unbound"
    /\ dev_pc' = "idle"
    /\ sriov_numvfs' \in 0..TotalVfs
    /\ sriov_drivers_autoprobe' \in {0, 1}
    /\ UNCHANGED <<dev_op, num, val, dev_ret, nested, dev_result, dev_calls, dev_hist>>
    /\ UNCHANGED provVars

DevCall(o, n, v) ==
    /\ dev_pc = "idle" /\ dev_calls < MaxDevOps
    /\ dev_op' = o /\ dev_pc' = o /\ num' = n /\ val' = v
    /\ dev_calls' = dev_calls + 1 /\ dev_result' = "none"
    /\ nested' = FALSE
    /\ dev_hist' = [op |-> dev_op, result |-> dev_result, vfs |-> sriov_numvfs]
    /\ UNCHANGED <<sriov_numvfs, sriov_drivers_autoprobe, dev_ret>>

DevEnd(res) == dev_pc' = "idle" /\ dev_result' = res
DevKeep == UNCHANGED <<dev_op, num, val, dev_calls, dev_hist>>

\* int(val) of set_drivers_autoprobe
IntOf(b) == IF b THEN 1 ELSE 0

\* set_drivers_autoprobe(v) as called at position p; `next` is where the caller goes on
AutoprobeStep(v, next, done) ==
    \E outcome \in WriteOutcomes :
        /\ sriov_drivers_autoprobe' = Written(sriov_drivers_autoprobe, IntOf(v), outcome)
        /\ IF outcome = "error" \/ sriov_drivers_autoprobe' # IntOf(v)
           THEN DevEnd("HostError") /\ UNCHANGED dev_ret
           ELSE IF done THEN DevEnd("ok") /\ UNCHANGED dev_ret
           ELSE dev_pc' = next /\ UNCHANGED <<dev_result, dev_ret>>

\* Device.set_drivers_autoprobe called by the test
set_drivers_autoprobe ==
    /\ dev_pc = "set_drivers_autoprobe"
    /\ AutoprobeStep(val, "idle", TRUE)
    /\ UNCHANGED <<sriov_numvfs, nested>> /\ DevKeep

\* create_vf: if self.get_current_vfs() != 0: self.remove_vfs()
create_vf ==
    /\ dev_pc = "create_vf"
    /\ IF sriov_numvfs # 0
       THEN dev_pc' = "remove_vfs" /\ nested' = TRUE
       ELSE dev_pc' = "create_vf_autoprobe" /\ UNCHANGED nested
    /\ UNCHANGED <<sriov_numvfs, sriov_drivers_autoprobe, dev_ret, dev_result>> /\ DevKeep

\* remove_vfs: set_numvfs(0), read back, HostError unless 0
remove_vfs ==
    /\ dev_pc = "remove_vfs"
    /\ \E outcome \in WriteOutcomes :
        /\ sriov_numvfs' = Written(sriov_numvfs, 0, outcome)
        /\ IF outcome = "error"
           THEN DevEnd("HostError") /\ UNCHANGED dev_ret
           ELSE /\ dev_ret' = sriov_numvfs'
                /\ IF dev_ret' # 0
                   THEN DevEnd("HostError")
                   ELSE dev_pc' = "remove_vfs_autoprobe" /\ UNCHANGED dev_result
    /\ UNCHANGED <<sriov_drivers_autoprobe, nested>> /\ DevKeep

\* variant: remove_vfs returns without re-enabling autoprobe
remove_vfs_autoprobe_skip ==
    /\ dev_pc = "remove_vfs_autoprobe"
    /\ IF nested THEN dev_pc' = "create_vf_autoprobe" /\ UNCHANGED dev_result
       ELSE DevEnd("ok")
    /\ UNCHANGED <<sriov_numvfs, sriov_drivers_autoprobe, dev_ret, nested>> /\ DevKeep

\* remove_vfs: self.set_drivers_autoprobe(True); return ret
remove_vfs_autoprobe ==
    /\ dev_pc = "remove_vfs_autoprobe"
    /\ AutoprobeStep(TRUE, "create_vf_autoprobe", ~nested)
    /\ UNCHANGED <<sriov_numvfs, nested>> /\ DevKeep

\* variant: create_vf writes the count without disabling autoprobe
create_vf_autoprobe_skip ==
    /\ dev_pc = "create_vf_autoprobe"
    /\ dev_pc' = "create_vf_write"
    /\ UNCHANGED <<sriov_numvfs, sriov_drivers_autoprobe, dev_ret, dev_result, nested>>
    /\ DevKeep

\* create_vf: self.numvf = num; self.set_drivers_autoprobe(False)
create_vf_autoprobe ==
    /\ dev_pc = "create_vf_autoprobe"
    /\ AutoprobeStep(FALSE, "create_vf_write", FALSE)
    /\ UNCHANGED <<sriov_numvfs, nested>> /\ DevKeep

\* create_vf: set_numvfs(num); ret = get_numvfs(); assert ret == num; return ret
create_vf_write ==
    /\ dev_pc = "create_vf_write"
    /\ \E outcome \in WriteOutcomes :
        /\ sriov_numvfs' = Written(sriov_numvfs, num, outcome)
        /\ IF outcome = "error"
           THEN DevEnd("HostError") /\ UNCHANGED dev_ret
           ELSE /\ dev_ret' = sriov_numvfs'
                /\ DevEnd(IF dev_ret' = num THEN "ok" ELSE "AssertionError")
    /\ UNCHANGED <<sriov_drivers_autoprobe, nested>> /\ DevKeep

\* -------------------------------------------------- Device: provisioning
\* device.py provision / set_resources / reset_provisioning over the debugfs
\* attributes XeDriver writes. Each method is a list of attribute writes made in
\* order; a write that fails raises HostError and ends the method there.
MaxGts     == 2     \* GTs of the device
MaxQuota   == 1     \* profile values are 0..MaxQuota
MaxProvOps == 3     \* provisioning methods one behaviour calls

\* the GT numbers that have attributes: those of a device of MaxGts + 1 GTs
Gts == 0..MaxGts
PfAttrs == {"sched_if_idle", "reset_engine", "exec_quantum_ms", "preempt_timeout_us",
            "ggtt_spare", "lmem_spare", "contexts_spare", "doorbells_spare"}
VfAttrs == {"ggtt_quota", "lmem_quota", "contexts_quota", "doorbells_quota",
            "exec_quantum_ms", "preempt_timeout_us"}
\* __helper_create_debugfs_path: gt@gt_num/[pf|vf@vf_num]/@attr
Paths == {<<g, 0, a>> : g \in Gts, a \in PfAttrs}
         \cup {<<g, f, a>> : g \in Gts, f \in 1..TotalVfs, a \in VfAttrs}
Wr(vf_num, gt_num, attr, v) == [path |-> <<gt_num, vf_num, attr>>, v |-> v]

\* SchedulingPriority
LOW == 0
\* XeDriver.get_pf_sched_priority: the attribute is not available, LOW is returned
get_pf_sched_priority(gt_num) == LOW

\* XeDriver.set_pf_policy_* / set_pf_*_spare: the writes a PF setter makes
set_pf(attr, gt_num, v) == <<Wr(0, gt_num, attr, v)>>
\* XeDriver.set_exec_quantum_ms / set_preempt_timeout_us
set_sched(attr, vf_num, gt_num, v) == <<Wr(vf_num, gt_num, attr, v)>>
\* XeDriver.set_ggtt_quota / set_lmem_quota / set_contexts_quota / set_doorbells_quota:
\* nothing is written for the PF, and lmem_quota only on a device with LMEM
set_quota(attr, vf_num, gt_num, v, lmem) ==
    IF vf_num = 0 THEN <<>>
    ELSE IF attr = "lmem_quota" /\ ~lmem THEN <<>>
    ELSE <<Wr(vf_num, gt_num, attr, v)>>
\* XeDriver.get_*_quota
get_quota(fs, attr, vf_num, gt_num, lmem) ==
    IF vf_num = 0 THEN 0
    ELSE IF attr = "lmem_quota" /\ ~lmem THEN 0
    ELSE fs[<<gt_num, vf_num, attr>>]

\* the concatenation of f[lo], ..., f[hi]
RECURSIVE Concat(_, _, _)
Concat(f, lo, hi) == IF lo > hi THEN <<>> ELSE f[lo] \o Concat(f, lo + 1, hi)

\* provision: the per-GT PF part
ProvisionPf(profile, gt_num, lmem) ==
    set_pf("sched_if_idle", gt_num, IntOf(profile.scheduler.scheduleIfIdle))
    \o set_pf("reset_engine", gt_num, IntOf(profile.security.reset_after_vf_switch))
    \o set_sched("exec_quantum_ms", 0, gt_num, profile.scheduler.pfExecutionQuanta)
    \o set_sched("preempt_timeout_us", 0, gt_num, profile.scheduler.pfPreemptionTimeout)
    \o set_quota("doorbells_quota", 0, gt_num, profile.resources.pfDoorbells, lmem)

\* provision: one (VF, GT) pair
ProvisionVf(profile, vf_num, gt_num, lmem) ==
    set_quota("lmem_quota", vf_num, gt_num, profile.resources.vfLmem, lmem)
    \o set_quota("ggtt_quota", vf_num, gt_num, profile.resources.vfGgtt, lmem)
    \o set_quota("contexts_quota", vf_num, gt_num, profile.resources.vfContexts, lmem)
    \o set_quota("doorbells_quota", vf_num, gt_num, profile.resources.vfDoorbells, lmem)
    \o set_sched("exec_quantum_ms", vf_num, gt_num, profile.scheduler.vfExecutionQuanta)
    \o set_sched("preempt_timeout_us", vf_num, gt_num, profile.scheduler.vfPreemptionTimeout)

\* provision: gt_nums = [0] if num_gts == 1 else [0, 1]; with several GTs and several
\* VFs, odd VFs go to GT0 and even VFs to GT1
ProvisionGts(gts) == IF gts = 1 THEN <<0>> ELSE <<0, 1>>
\* (variant: every VF on every GT of gt_nums)
ProvisionVfGtsAll(gts, num_vfs, vf_num) == ProvisionGts(gts)
ProvisionVfGts(gts, num_vfs, vf_num) ==
    IF gts > 1 /\ num_vfs > 1
    THEN (IF vf_num % 2 = 1 THEN <<0>> ELSE <<1>>)
    ELSE ProvisionGts(gts)

\* provision(profile): every write, in order
ProvisionWrites(profile, gts, lmem) ==
    LET gt_nums == ProvisionGts(gts)
    IN  Concat([i \in DOMAIN gt_nums |-> ProvisionPf(profile, gt_nums[i], lmem)],
               1, Len(gt_nums))
        \o Concat([vf_num \in 1..profile.num_vfs |->
                      LET vgts == ProvisionVfGts(gts, profile.num_vfs, vf_num)
                      IN  Concat([i \in DOMAIN vgts |->
                                    ProvisionVf(profile, vf_num, vgts[i], lmem)],
                                 1, Len(vgts))],
                  1, profile.num_vfs)

\* set_resources(fn_num, gt_num, resources_config): every write, in order
SetResourcesWrites(fn_num, gt_num, resources_config, lmem) ==
    IF fn_num = 0
    THEN set_pf("ggtt_spare", gt_num, resources_config.pfGgtt)
         \o set_pf("lmem_spare", gt_num, resources_config.pfLmem)
         \o set_pf("contexts_spare", gt_num, resources_config.pfContexts)
         \o set_pf("doorbells_spare", gt_num, resources_config.pfDoorbells)
    ELSE set_quota("ggtt_quota", fn_num, gt_num, resources_config.vfGgtt, lmem)
         \o set_quota("lmem_quota", fn_num, gt_num, resources_config.vfLmem, lmem)
         \o set_quota("contexts_quota", fn_num, gt_num, resources_config.vfContexts, lmem)
         \o set_quota("doorbells_quota", fn_num, gt_num, resources_config.vfDoorbells, lmem)

\* reset_provisioning: one GT
ResetGt(num_vfs, gt_num, lmem) ==
    (IF get_pf_sched_priority(gt_num) # LOW THEN <<Wr(0, gt_num, "sched_priority", LOW)>>
     ELSE <<>>)
    \o set_pf("sched_if_idle", gt_num, 0)
    \o set_pf("reset_engine", gt_num, 0)
    \o set_sched("exec_quantum_ms", 0, gt_num, 0)
    \o set_sched("preempt_timeout_us", 0, gt_num, 0)
    \o set_quota("doorbells_quota", 0, gt_num, 0, lmem)
    \o Concat([vf_num \in 1..num_vfs |->
                  set_quota("contexts_quota", vf_num, gt_num, 0, lmem)
                  \o set_quota("doorbells_quota", vf_num, gt_num, 0, lmem)
                  \o set_quota("ggtt_quota", vf_num, gt_num, 0, lmem)
                  \o set_quota("lmem_quota", vf_num, gt_num, 0, lmem)],
              1, num_vfs)

\* variant: reset_provisioning also clears the execution quantum and the preemption
\* timeout of the VFs
ResetWritesSched(num_vfs, gts, lmem) ==
    Concat([g \in 1..gts |->
               ResetGt(num_vfs, g - 1, lmem)
               \o Concat([vf_num \in 1..num_vfs |->
                             set_sched("exec_quantum_ms", vf_num, g - 1, 0)
                             \o set_sched("preempt_timeout_us", vf_num, g - 1, 0)],
                         1, num_vfs)],
           1, gts)

\* reset_provisioning(num_vfs): for gt_num in range(self.get_num_gts())
ResetWrites(num_vfs, gts, lmem) ==
    Concat([g \in 1..gts |-> ResetGt(num_vfs, g - 1, lmem)], 1, gts)

\* the attributes after the first k writes of ws
RECURSIVE Apply(_, _, _)
Apply(fs, ws, k) ==
    IF k = 0 THEN fs
    ELSE [Apply(fs, ws, k - 1) EXCEPT ![ws[k].path] = ws[k].v]

Quotas == 0..MaxQuota
\* VgpuResourcesConfig
ResourceConfigs ==
    {[pfLmem |-> q, pfContexts |-> q, pfDoorbells |-> q, pfGgtt |-> q,
      vfLmem |-> q, vfContexts |-> q, vfDoorbells |-> q, vfGgtt |-> q] : q \in Quotas}
\* VgpuProfile with its scheduler, resources and security parts
Profiles ==
    {[num_vfs |-> n,
      scheduler |-> [scheduleIfIdle |-> b, pfExecutionQuanta |-> r.pfGgtt,
                     pfPreemptionTimeout |-> r.pfGgtt, vfExecutionQuanta |-> r.vfGgtt,
                     vfPreemptionTimeout |-> r.vfGgtt],
      resources |-> r,
      security |-> [reset_after_vf_switch |-> b]] :
        n \in 1..TotalVfs, b \in BOOLEAN, r \in ResourceConfigs}

\* no driver object yet: nothing of debugfs is known
ProvInit ==
    /\ debugfs = <<>>
    /\ num_gts = 1 /\ has_lmem = FALSE
    /\ prov_op = "none" /\ prov_arg = 0 /\ prov_result = "none" /\ prov_calls = 0
    /\ prov_hist = [op |-> "none", result |-> "none"]
    /\ prov_logging = FALSE /\ prov_log = <<>>

\* XeDriver.__init__: the device has one or more GTs, and LMEM or not; the
\* attributes have the values of an unprovisioned device
DriverInitWith(logging) ==
    /\ prov_op = "none"
    /\ prov_op' = "init"
    /\ num_gts' \in 1..MaxGts
    /\ has_lmem' \in BOOLEAN
    /\ debugfs' = [p \in Paths |-> 0]
    /\ prov_logging' = logging
    /\ prov_log' = IF logging THEN [profile |-> <<>>, written |-> {}] ELSE prov_log
    /\ UNCHANGED <<prov_arg, prov_result, prov_calls, prov_hist>>

\* the same for every count get_num_gts can come to: tile0 has no gt directory at
\* all, or any number of them
DriverInitAny ==
    /\ prov_op = "none"
    /\ prov_op' = "init"
    /\ num_gts' \in 0..(MaxGts + 1)
    /\ has_lmem' \in BOOLEAN
    /\ debugfs' = [p \in Paths |-> 0]
    /\ prov_logging' = TRUE
    /\ prov_log' = [profile |-> <<>>, written |-> {}]
    /\ UNCHANGED <<prov_arg, prov_result, prov_calls, prov_hist>>

DriverInit == DriverInitWith(FALSE)
DriverInitLogged == DriverInitWith(TRUE)

\* a provisioning method called with argument a makes the writes ws until one fails
\* (`full` is the whole argument, for the history)
ProvRun(o, a, ws, full) ==
    /\ prov_op # "none" /\ prov_calls < MaxProvOps
    /\ prov_op' = o /\ prov_arg' = a /\ prov_calls' = prov_calls + 1
    /\ prov_hist' = [op |-> prov_op, result |-> prov_result]
    /\ \E k \in 0..Len(ws) :
        /\ debugfs' = Apply(debugfs, ws, k)
        /\ prov_result' = IF k = Len(ws) THEN "ok" ELSE "HostError"
        /\ prov_log' = IF prov_logging
                       THEN [profile |-> full, written |-> {ws[i].path : i \in 1..k}]
                       ELSE prov_log
    /\ UNCHANGED <<num_gts, has_lmem, prov_logging>>

provision ==
    \E profile \in Profiles :
        ProvRun("provision", profile.num_vfs, ProvisionWrites(profile, num_gts, has_lmem),
                profile)

set_resources ==
    \E fn_num \in 0..TotalVfs, gt_num \in 0..(num_gts - 1), r \in ResourceConfigs :
        ProvRun("set_resources", fn_num,
                SetResourcesWrites(fn_num, gt_num, r, has_lmem), <<>>)

\* what the test passes is the num_vfs of the profile it provisioned
reset_provisioning ==
    \E num_vfs \in 1..TotalVfs :
        /\ prov_op = "provision" => num_vfs = prov_arg
        /\ ProvRun("reset_provisioning", num_vfs, ResetWrites(num_vfs, num_gts, has_lmem),
                   <<>>)

\* teardown's reset_provisioning after the provision of the setup, for the VFs of the
\* profile; the history keeps the profile that was provisioned
reset_provisioned ==
    /\ prov_op = "provision" /\ prov_result = "ok"
    /\ ProvRun("reset_provisioning", prov_arg, ResetWrites(prov_arg, num_gts, has_lmem),
               prov_log.profile)

\* ------------------------------------------ VgpuProfileConfigurator
MaxEntries == 3     \* VF resource profiles in a file
MaxCount == 5       \* the largest VFCount of a profile
MaxSched == 2       \* scheduler profiles in a file

\* VgpuResourcesConfig(): the dataclass defaults
VgpuResourcesConfig ==
    [pfLmem |-> 0, pfContexts |-> 0, pfDoorbells |-> 0, pfGgtt |-> 0,
     vfLmem |-> 0, vfContexts |-> 0, vfDoorbells |-> 0, vfGgtt |-> 0]
\* VgpuSchedulerConfig()
VgpuSchedulerConfig ==
    [scheduleIfIdle |-> FALSE, pfExecutionQuanta |-> 0, pfPreemptionTimeout |-> 0,
     vfExecutionQuanta |-> 0, vfPreemptionTimeout |-> 0]
\* VgpuSecurityConfig(): the field provision uses
VgpuSecurityConfig == [reset_after_vf_switch |-> FALSE]

\* VfSchedulingMode: the values of the enumeration
INFINITE == "Infinite"
DEFAULT_PROFILE == "Default_Profile"
VfSchedulingMode ==
    {INFINITE, DEFAULT_PROFILE, "Flexible_30fps_GPUTimeSlicing",
     "Fixed_30fps_GPUTimeSlicing", "Flexible_BurstableQoS_GPUTimeSlicing"}

\* eval() of the text of a scheduler formula: the function of the number of VFs
Formulas == {"lambda VFs : 8 // VFs", "lambda VFs : 2 * VFs", "lambda VFs : 4"}
eval(text) ==
    CASE text = "lambda VFs : 8 // VFs" -> [VFs \in 1..(MaxCount + 1) |-> 8 \div VFs]
      [] text = "lambda VFs : 2 * VFs"  -> [VFs \in 1..(MaxCount + 1) |-> 2 * VFs]
      [] text = "lambda VFs : 4"        -> [VFs \in 1..(MaxCount + 1) |-> 4]

\* (variant: only a VF profile of exactly the requested count fits)
select_vgpu_resources_profile_exact(defs, requested_num_vfs) ==
    IF \E i \in DOMAIN defs.vf_resources :
          defs.vf_resources[i].vf_count = requested_num_vfs
    THEN [raised |-> "none", value |-> VgpuResourcesConfig]
    ELSE [raised |-> "VgpuProfileError", value |-> <<>>]

\* select_vgpu_resources_profile: the PF fields of the default PF profile, then the VF
\* fields of the first VF profile of the file that fits; [raised, value]
select_vgpu_resources_profile(defs, requested_num_vfs) ==
    LET RECURSIVE PfLoop(_, _)
        PfLoop(config, i) ==
            IF i > Len(defs.pf_resources) THEN config
            ELSE LET pf_resource == defs.pf_resources[i]
                 IN  PfLoop(IF pf_resource.profile_name = defs.pf_resource_default
                            THEN [config EXCEPT
                                    !.pfLmem = pf_resource.local_memory_ecc_on,
                                    !.pfContexts = pf_resource.contexts,
                                    !.pfDoorbells = pf_resource.doorbells,
                                    !.pfGgtt = pf_resource.ggtt_size]
                            ELSE config,
                            i + 1)
        RECURSIVE VfLoop(_, _)
        VfLoop(config, i) ==
            IF i > Len(defs.vf_resources)
            THEN [raised |-> "VgpuProfileError", value |-> <<>>]
            ELSE LET vf_resource == defs.vf_resources[i]
                     current_num_vfs == vf_resource.vf_count
                     is_vf_resource_found ==
                         \/ current_num_vfs = requested_num_vfs
                         \/ /\ requested_num_vfs < current_num_vfs
                            /\ current_num_vfs <= requested_num_vfs + 2
                 IN  IF is_vf_resource_found
                     THEN [raised |-> "none",
                           value |-> [config EXCEPT
                                        !.vfLmem = vf_resource.local_memory_ecc_on,
                                        !.vfContexts = vf_resource.contexts,
                                        !.vfDoorbells = vf_resource.doorbells,
                                        !.vfGgtt = vf_resource.ggtt_size]]
                     ELSE VfLoop(config, i + 1)
    IN  VfLoop(PfLoop(VgpuResourcesConfig, 1), 1)

\* (variant: the VF formulas are evaluated for one VF)
select_vgpu_scheduler_profile_one(defs, requested_num_vfs, requested_scheduler) ==
    LET RECURSIVE Loop(_, _)
        Loop(config, i) ==
            IF i > Len(defs.scheduler_configs) THEN config
            ELSE LET scheduler == defs.scheduler_configs[i]
                 IN  Loop(IF scheduler.profile_name = requested_scheduler
                          THEN [scheduleIfIdle |-> scheduler.schedule_if_idle,
                                pfExecutionQuanta |-> scheduler.pf_execution_quanta,
                                pfPreemptionTimeout |-> scheduler.pf_preemption_timeout,
                                vfExecutionQuanta |-> eval(scheduler.vf_execution_quanta)[1],
                                vfPreemptionTimeout |->
                                    eval(scheduler.vf_preemption_timeout)[1]]
                          ELSE config,
                          i + 1)
    IN  IF requested_scheduler = INFINITE THEN VgpuSchedulerConfig
        ELSE Loop(VgpuSchedulerConfig, 1)

\* variant: when no profile has the name, the first profile of the file is taken
select_vgpu_scheduler_profile_first(defs, requested_num_vfs, requested_scheduler) ==
    LET named == {i \in DOMAIN defs.scheduler_configs :
                     defs.scheduler_configs[i].profile_name = requested_scheduler}
        i == IF named = {} THEN 1 ELSE CHOOSE i \in named : \A j \in named : i >= j
    IN  IF requested_scheduler = INFINITE \/ defs.scheduler_configs = <<>>
        THEN VgpuSchedulerConfig
        ELSE LET scheduler == defs.scheduler_configs[i]
             IN  [scheduleIfIdle |-> scheduler.schedule_if_idle,
                  pfExecutionQuanta |-> scheduler.pf_execution_quanta,
                  pfPreemptionTimeout |-> scheduler.pf_preemption_timeout,
                  vfExecutionQuanta |->
                      eval(scheduler.vf_execution_quanta)[requested_num_vfs],
                  vfPreemptionTimeout |->
                      eval(scheduler.vf_preemption_timeout)[requested_num_vfs]]

\* select_vgpu_scheduler_profile: nothing is looked up for INFINITE; else every profile
\* of that name is copied, in the order of the file
select_vgpu_scheduler_profile(defs, requested_num_vfs, requested_scheduler) ==
    LET RECURSIVE Loop(_, _)
        Loop(config, i) ==
            IF i > Len(defs.scheduler_configs) THEN config
            ELSE LET scheduler == defs.scheduler_configs[i]
                 IN  Loop(IF scheduler.profile_name = requested_scheduler
                          THEN [scheduleIfIdle |-> scheduler.schedule_if_idle,
                                pfExecutionQuanta |-> scheduler.pf_execution_quanta,
                                pfPreemptionTimeout |-> scheduler.pf_preemption_timeout,
                                vfExecutionQuanta |->
                                    eval(scheduler.vf_execution_quanta)[requested_num_vfs],
                                vfPreemptionTimeout |->
                                    eval(scheduler.vf_preemption_timeout)[requested_num_vfs]]
                          ELSE config,
                          i + 1)
    IN  IF requested_scheduler = INFINITE THEN VgpuSchedulerConfig
        ELSE Loop(VgpuSchedulerConfig, 1)

\* select_vgpu_security_profile
select_vgpu_security_profile(defs) ==
    LET RECURSIVE Loop(_, _)
        Loop(config, i) ==
            IF i > Len(defs.security_configs) THEN config
            ELSE LET security_profile == defs.security_configs[i]
                 IN  Loop(IF security_profile.profile_name = defs.security_config_default
                          THEN [reset_after_vf_switch |->
                                    security_profile.reset_after_vf_switch]
                          ELSE config,
                          i + 1)
    IN  Loop(VgpuSecurityConfig, 1)

\* variant: the profile gets the VF count of the VF profile its resources come from
get_vgpu_profile_count(defs, requested_num_vfs, requested_scheduler) ==
    LET resources == select_vgpu_resources_profile(defs, requested_num_vfs)
        scheduler == IF requested_scheduler = DEFAULT_PROFILE
                     THEN defs.scheduler_config_default
                     ELSE requested_scheduler
        fits == {i \in DOMAIN defs.vf_resources :
                    /\ defs.vf_resources[i].vf_count >= requested_num_vfs
                    /\ defs.vf_resources[i].vf_count <= requested_num_vfs + 2}
        first == CHOOSE i \in fits : \A j \in fits : i <= j
    IN  IF resources.raised # "none" THEN resources
        ELSE IF scheduler \notin VfSchedulingMode
        THEN [raised |-> "ValueError", value |-> <<>>]
        ELSE [raised |-> "none",
              value |-> [num_vfs |-> defs.vf_resources[first].vf_count,
                         resources |-> resources.value,
                         scheduler |-> select_vgpu_scheduler_profile(
                                           defs, requested_num_vfs, scheduler),
                         security |-> select_vgpu_security_profile(defs)]]

\* VgpuProfileConfigurator.get_vgpu_profile: [raised, value]; VfSchedulingMode(name)
\* raises ValueError for a name that is no value of the enumeration
get_vgpu_profile(defs, requested_num_vfs, requested_scheduler) ==
    LET resources == select_vgpu_resources_profile(defs, requested_num_vfs)
        scheduler == IF requested_scheduler = DEFAULT_PROFILE
                     THEN defs.scheduler_config_default
                     ELSE requested_scheduler
    IN  IF resources.raised # "none" THEN resources
        ELSE IF scheduler \notin VfSchedulingMode
        THEN [raised |-> "ValueError", value |-> <<>>]
        ELSE [raised |-> "none",
              value |-> [num_vfs |-> requested_num_vfs,
                         resources |-> resources.value,
                         scheduler |-> select_vgpu_scheduler_profile(
                                           defs, requested_num_vfs, scheduler),
                         security |-> select_vgpu_security_profile(defs)]]

\* the profile files read: the PF, VF, scheduler and security profiles, each in the
\* order of the keys of the file
PfResources ==
    <<[profile_name |-> "PfA", local_memory_ecc_off |-> 1, local_memory_ecc_on |-> 2,
       contexts |-> 3, doorbells |-> 4, ggtt_size |-> 5],
      [profile_name |-> "PfB", local_memory_ecc_off |-> 6, local_memory_ecc_on |-> 7,
       contexts |-> 8, doorbells |-> 9, ggtt_size |-> 10]>>
\* the VF profile at place i of a file, with vf_count VFs
VfResource(i, vf_count) ==
    [profile_name |-> "Vf" \o ToString(i), vf_count |-> vf_count,
     local_memory_ecc_off |-> 10 * i, local_memory_ecc_on |-> 10 * i + 1,
     contexts |-> 10 * i + 2, doorbells |-> 10 * i + 3, ggtt_size |-> 10 * i + 4]
VfResources ==
    UNION {{[i \in 1..k |-> VfResource(i, counts[i])] : counts \in [1..k -> 1..MaxCount]} :
           k \in 1..MaxEntries}
SchedulerNames == VfSchedulingMode \ {INFINITE, DEFAULT_PROFILE}
SchedulerConfig(i, name, idle, text) ==
    [profile_name |-> name, schedule_if_idle |-> idle,
     pf_execution_quanta |-> 10 * i, pf_preemption_timeout |-> 10 * i + 1,
     vf_execution_quanta |-> text, vf_preemption_timeout |-> "lambda VFs : 2 * VFs"]
SchedulerConfigs ==
    UNION {{[i \in 1..k |-> SchedulerConfig(i, names[i], idle[i], text[i])] :
                names \in {f \in [1..k -> SchedulerNames] :
                              \A a, b \in 1..k : a # b => f[a] # f[b]},
                idle \in [1..k -> BOOLEAN], text \in [1..k -> Formulas]} :
           k \in 0..MaxSched}
SecurityConfigs == <<[profile_name |-> "Default", reset_after_vf_switch |-> TRUE]>>
Definitions(pf_default, vf_resources, scheduler_default, scheduler_configs) ==
    [pf_resource_default |-> pf_default, pf_resources |-> PfResources,
     vf_resources |-> vf_resources,
     scheduler_config_default |-> scheduler_default,
     scheduler_configs |-> scheduler_configs,
     security_config_default |-> "Default", security_configs |-> SecurityConfigs]

\* no configurator yet
CfgInit ==
    /\ supported_vgpu_profiles = <<>>
    /\ cfg_call = [op |-> "none", requested_num_vfs |-> 0, requested_scheduler |-> "none",
                   raised |-> "none"]
    /\ cfg_result = <<>>

\* VgpuProfileConfigurator.__init__ / query_vgpu_profiles: a file with any VF profiles
query_vgpu_profiles ==
    /\ cfg_call.op = "none"
    /\ cfg_call' = [cfg_call EXCEPT !.op = "init"]
    /\ \E pf_default \in {"PfA", "PfB"}, vf_resources \in VfResources :
          supported_vgpu_profiles' =
              Definitions(pf_default, vf_resources, "Fixed_30fps_GPUTimeSlicing",
                          <<SchedulerConfig(1, "Fixed_30fps_GPUTimeSlicing", TRUE,
                                            "lambda VFs : 8 // VFs")>>)
    /\ UNCHANGED cfg_result

\* the same, a file with any scheduler profiles and any default scheduler
query_vgpu_schedulers ==
    /\ cfg_call.op = "none"
    /\ cfg_call' = [cfg_call EXCEPT !.op = "init"]
    /\ \E scheduler_default \in SchedulerNames \cup {INFINITE, "N/A"},
          scheduler_configs \in SchedulerConfigs :
          supported_vgpu_profiles' =
              Definitions("PfA", [i \in 1..2 |-> VfResource(i, 2 * i)],
                          scheduler_default, scheduler_configs)
    /\ UNCHANGED cfg_result

CfgReturn(o, n, s, res) ==
    /\ cfg_call.op = "init"
    /\ cfg_call' = [op |-> o, requested_num_vfs |-> n, requested_scheduler |-> s,
                    raised |-> res.raised]
    /\ cfg_result' = res.value
    /\ UNCHANGED supported_vgpu_profiles

\* a call of select_vgpu_resources_profile
SelectResources ==
    \E n \in 1..(MaxCount + 1) :
        CfgReturn("select_vgpu_resources_profile", n, "none",
                  select_vgpu_resources_profile(supported_vgpu_profiles, n))

\* a call of select_vgpu_scheduler_profile
SelectScheduler ==
    \E n \in 1..(MaxCount + 1), s \in VfSchedulingMode :
        CfgReturn("select_vgpu_scheduler_profile", n, s,
                  [raised |-> "none",
                   value |-> select_vgpu_scheduler_profile(supported_vgpu_profiles, n, s)])

\* VmmTestingSetup.get_vgpu_profile: VgpuProfileError is raised again as the
\* VgpuProfileError of an invalid test setup
VmmGetVgpuProfile ==
    \E n \in 1..(MaxCount + 1), s \in VfSchedulingMode :
        CfgReturn("get_vgpu_profile", n, s,
                  get_vgpu_profile(supported_vgpu_profiles, n, s))

\* VmmTestingSetup.get_vgpu_profile for a test configuration that asks for no more
\* VFs than the device has, with the scheduling mode it has by default or the
\* default profile of the file
setup_get_vgpu_profile ==
    \E n \in 1..TotalVfs, s \in {INFINITE, DEFAULT_PROFILE} :
        CfgReturn("get_vgpu_profile", n, s,
                  get_vgpu_profile(supported_vgpu_profiles, n, s))

\* device.provision(ts.vgpu_profile): provision with the profile get_vgpu_profile
\* returned
provision_selected ==
    /\ cfg_call.op = "get_vgpu_profile" /\ cfg_call.raised = "none"
    /\ prov_op = "init"
    /\ ProvRun("provision", cfg_result.num_vfs,
               ProvisionWrites(cfg_result, num_gts, has_lmem), cfg_result)

\* ------------------------------------------------ GuestAgentBackend
MaxRpc == 3         \* guest-agent calls one behaviour makes, replies the agent gives
MaxFileOps == 2     \* read_file_content / write_file_content calls per behaviour

\* json.dump(data, sockf) / json.loads(out): an object and its text
dumps(data) == [json |-> data]
loads(out) == out.json
\* sockf.readline() at end of file
EmptyLine == [eof |-> TRUE]

Handles == {1000, 1001}
AgentError == [error |-> [class |-> "GenericError"]]
\* guest-suspend-ram and guest-shutdown are answered only when they fail, with an
\* error whose description is about the command
FireCommands == {"guest-suspend-ram", "guest-shutdown"}
FireError(c) == [error |-> [class |-> "GenericError", desc |-> c.execute]]
\* what the agent answers to a command: its result or an error
AgentReplies(c) ==
    CASE c.execute \in FireCommands -> {FireError(c)}
      [] c.execute = "guest-sync" -> {[return |-> c.arguments.id], AgentError}
      [] c.execute = "guest-ping" -> {[return |-> EmptyDict], AgentError}
      [] c.execute = "guest-exec" -> {[return |-> [pid |-> 1]], AgentError}
      [] c.execute = "guest-exec-status" -> {[return |-> [exited |-> TRUE]], AgentError}
      [] c.execute = "guest-file-open" -> {[return |-> h] : h \in Handles} \cup {AgentError}
      [] c.execute = "guest-file-read" ->
            {[return |-> [eof |-> b, buf_b64 |-> "YQ=="]] : b \in BOOLEAN}
            \cup {[return |-> EmptyDict], AgentError}
      [] c.execute = "guest-file-write" ->
            {[return |-> [count |-> 1]], [return |-> EmptyDict], AgentError}
      [] OTHER -> {[return |-> EmptyDict], AgentError}

\* no client yet
GaInit ==
    /\ ga_timeout = 0 /\ ga_pc = "none" /\ ga_peer = "none"
    /\ ga_tx = <<>> /\ ga_rx = <<>>
    /\ ga_call = [method |-> "none", wrote |-> <<>>, read |-> <<>>]
    /\ ga_ret = EmptyDict /\ ga_raised = "none"
    /\ ga_waited = 0 /\ ga_calls = 0 /\ ga_replies = 0
    /\ fc_op = "none" /\ fc_pc = "idle" /\ fc_handle = 0 /\ fc_exc = "none"
    /\ fc_result = "none" /\ fc_log = <<>> /\ fc_calls = 0

fcVars == <<fc_op, fc_pc, fc_handle, fc_exc, fc_result, fc_log, fc_calls>>

\* GuestAgentBackend.__init__: the timeout is kept in self.timeout; the socket is
\* created and connected as it is, in blocking mode
GuestAgentBackend ==
    /\ ga_pc = "none"
    /\ ga_pc' = "idle" /\ ga_peer' = "open"
    /\ ga_timeout' \in 1..MaxTimeout
    /\ UNCHANGED <<ga_tx, ga_rx, ga_call, ga_ret, ga_raised, ga_waited, ga_calls,
                   ga_replies, fcVars>>

\* the guest agent answers the oldest command
GuestAgentReply ==
    /\ ga_peer = "open" /\ ga_tx # <<>> /\ ga_replies < MaxRpc
    /\ \E r \in AgentReplies(loads(Head(ga_tx))) : ga_rx' = Append(ga_rx, dumps(r))
    /\ ga_tx' = Tail(ga_tx)
    /\ ga_replies' = ga_replies + 1
    /\ UNCHANGED <<ga_timeout, ga_pc, ga_peer, ga_call, ga_ret, ga_raised, ga_waited,
                   ga_calls, fcVars>>

\* the guest agent's end of the socket is closed (the VM is gone)
GuestAgentExit ==
    /\ ga_peer = "open"
    /\ ga_peer' = "closed"
    /\ UNCHANGED <<ga_timeout, ga_pc, ga_tx, ga_rx, ga_call, ga_ret, ga_raised,
                   ga_waited, ga_calls, ga_replies, fcVars>>

\* a second passes while readline() waits for a line
GaTick ==
    /\ ga_pc = "readline" /\ ga_rx = <<>> /\ ga_peer = "open"
    /\ ga_waited <= ga_timeout
    /\ ga_waited' = ga_waited + 1
    /\ UNCHANGED <<ga_timeout, ga_pc, ga_peer, ga_tx, ga_rx, ga_call, ga_ret, ga_raised,
                   ga_calls, ga_replies, fcVars>>

\* (variant: a command without arguments is written without the field)
send_bare(method, command, arguments) ==
    /\ ga_pc = "idle"
    /\ ga_waited' = 0
    /\ ga_ret' = EmptyDict
    /\ IF ga_peer = "open"
       THEN /\ ga_tx' = Append(ga_tx, dumps(IF arguments = EmptyDict
                                            THEN [execute |-> command]
                                            ELSE [execute |-> command,
                                                  arguments |-> arguments]))
            /\ ga_call' = [method |-> method, wrote |-> <<ga_tx'[Len(ga_tx')]>>,
                           read |-> <<>>]
            /\ ga_pc' = "readline" /\ ga_raised' = "none"
       ELSE /\ ga_call' = [method |-> method, wrote |-> <<>>, read |-> <<>>]
            /\ ga_pc' = "idle" /\ ga_raised' = "BrokenPipeError"
            /\ UNCHANGED ga_tx
    /\ UNCHANGED <<ga_timeout, ga_peer, ga_rx, ga_replies>>

\* __send, up to the flush: data = {'execute': command, 'arguments': arguments} is
\* written and flushed; a closed peer makes the flush raise
send(method, command, arguments) ==
    /\ ga_pc = "idle"
    /\ ga_waited' = 0
    /\ ga_ret' = EmptyDict
    /\ IF ga_peer = "open"
       THEN /\ ga_tx' = Append(ga_tx, dumps([execute |-> command, arguments |-> arguments]))
            /\ ga_call' = [method |-> method, wrote |-> <<ga_tx'[Len(ga_tx')]>>,
                           read |-> <<>>]
            /\ ga_pc' = "readline" /\ ga_raised' = "none"
       ELSE /\ ga_call' = [method |-> method, wrote |-> <<>>, read |-> <<>>]
            /\ ga_pc' = "idle" /\ ga_raised' = "BrokenPipeError"
            /\ UNCHANGED ga_tx
    /\ UNCHANGED <<ga_timeout, ga_peer, ga_rx, ga_replies>>

\* __send, from readline(): the socket has no timeout, so readline() returns only with
\* a line or, at end of file, with '', which json.loads rejects; a reply with an 'error'
\* is logged and returned like any other
send_readline ==
    /\ ga_pc = "readline"
    /\ ga_rx # <<>> \/ ga_peer = "closed"
    /\ ga_pc' = "idle"
    /\ IF ga_rx # <<>>
       THEN /\ ga_rx' = Tail(ga_rx)
            /\ ga_call' = [ga_call EXCEPT !.read = Append(@, Head(ga_rx))]
            /\ ga_ret' = loads(Head(ga_rx))
            /\ ga_raised' = "none"
       ELSE /\ ga_call' = [ga_call EXCEPT !.read = Append(@, EmptyLine)]
            /\ ga_raised' = "JSONDecodeError"
            /\ UNCHANGED <<ga_rx, ga_ret>>
    /\ UNCHANGED <<ga_timeout, ga_peer, ga_tx, ga_waited, ga_calls, ga_replies, fcVars>>

\* sync, ping, execute, execute_status, guest_file_*: the command and the arguments
GaMethods ==
    {[method |-> "sync", command |-> "guest-sync", arguments |-> [id |-> 1]],
     [method |-> "ping", command |-> "guest-ping", arguments |-> EmptyDict],
     [method |-> "execute", command |-> "guest-exec",
      arguments |-> [path |-> "ls", arg |-> [list |-> <<>>], capture_output |-> TRUE]],
     [method |-> "execute_status", command |-> "guest-exec-status",
      arguments |-> [pid |-> 1]]}
guest_file_open(path, fmode) == [path |-> path, mode |-> fmode]
guest_file_close(handle) == [handle |-> handle]
guest_file_write(handle, content) == [handle |-> handle, buf_b64 |-> content]
guest_file_read(handle) == [handle |-> handle]
GaFileMethods ==
    {[method |-> "guest_file_open", command |-> "guest-file-open",
      arguments |-> guest_file_open("/tmp/f", "r")],
     [method |-> "guest_file_read", command |-> "guest-file-read",
      arguments |-> guest_file_read(1000)],
     [method |-> "guest_file_write", command |-> "guest-file-write",
      arguments |-> guest_file_write(1000, "YQ==")],
     [method |-> "guest_file_close", command |-> "guest-file-close",
      arguments |-> guest_file_close(1000)]}

\* a call of one of the methods
GaCall ==
    /\ fc_pc = "idle" /\ ga_calls < MaxRpc
    /\ \E m \in GaMethods \cup GaFileMethods : send(m.method, m.command, m.arguments)
    /\ ga_calls' = ga_calls + 1
    /\ UNCHANGED fcVars

\* suspend_ram, reboot, poweroff: the object written after ping()
GaFireMethods ==
    {[method |-> "suspend_ram", data |-> [execute |-> "guest-suspend-ram"]],
     [method |-> "reboot",
      data |-> [execute |-> "guest-shutdown", arguments |-> [mode |-> "reboot"]]],
     [method |-> "poweroff",
      data |-> [execute |-> "guest-shutdown", arguments |-> [mode |-> "powerdown"]]]}
FireNames == {m.method : m \in GaFireMethods}
\* ping() of such a method has returned, its own write is still to come
FirePending ==
    /\ ga_pc = "idle" /\ ga_call.method \in FireNames /\ ga_raised = "none"
    /\ Len(ga_call.wrote) = 1 /\ Len(ga_call.read) = 1

\* a call of suspend_ram, reboot or poweroff: self.ping()
GaFireCall ==
    /\ fc_pc = "idle" /\ ga_calls < MaxRpc /\ ~FirePending
    /\ \E m \in GaFireMethods : send(m.method, "guest-ping", EmptyDict)
    /\ ga_calls' = ga_calls + 1
    /\ UNCHANGED fcVars

\* suspend_ram, reboot, poweroff after ping(): json.dump(data, sockf); flush(), and
\* the method returns without reading a line
fire_write ==
    /\ FirePending
    /\ LET m == CHOOSE m \in GaFireMethods : m.method = ga_call.method IN
        IF ga_peer = "open"
        THEN /\ ga_tx' = Append(ga_tx, dumps(m.data))
             /\ ga_call' = [ga_call EXCEPT !.wrote = Append(@, dumps(m.data))]
             /\ UNCHANGED ga_raised
        ELSE /\ ga_raised' = "BrokenPipeError"
             /\ UNCHANGED <<ga_tx, ga_call>>
    /\ UNCHANGED <<ga_timeout, ga_pc, ga_peer, ga_rx, ga_ret, ga_waited, ga_calls,
                   ga_replies, fcVars>>

\* a request/response call made once the method before it has returned
GaCallNext == ~FirePending /\ GaCall

\* the guest agent carries out a guest-suspend-ram or guest-shutdown: no answer
GuestAgentObeys ==
    /\ ga_peer = "open" /\ ga_tx # <<>>
    /\ loads(Head(ga_tx)).execute \in FireCommands
    /\ ga_tx' = Tail(ga_tx)
    /\ UNCHANGED <<ga_timeout, ga_pc, ga_peer, ga_rx, ga_call, ga_ret, ga_raised,
                   ga_waited, ga_calls, ga_replies, fcVars>>

\* VirtualMachine.__get_key(base, path) raises ValueError for a missing key
HasKey(base, path) ==
    /\ path[1] \in DOMAIN base
    /\ Len(path) > 1 => path[2] \in DOMAIN base[path[1]]

FileOps == {"read_file_content", "write_file_content"}
FileEnd(res) ==
    /\ fc_pc' = "idle" /\ fc_result' = res
    /\ UNCHANGED <<ga_timeout, ga_pc, ga_peer, ga_tx, ga_rx, ga_call, ga_ret, ga_raised,
                   ga_waited, ga_replies>>
FileSend(method, command, arguments, handle) ==
    /\ send(method, command, arguments)
    /\ fc_log' = Append(fc_log, [command |-> command, handle |-> handle])

\* read_file_content / write_file_content: guest_file_open(path, 'r' or 'w')
file_content_open ==
    /\ ga_pc = "idle" /\ fc_pc = "idle" /\ fc_calls < MaxFileOps
    /\ \E o \in FileOps :
          /\ fc_op' = o
          /\ send("guest_file_open", "guest-file-open",
                  guest_file_open("/tmp/f", IF o = "read_file_content" THEN "r" ELSE "w"))
    /\ fc_log' = <<[command |-> "guest-file-open", handle |-> 0]>>
    /\ fc_pc' = "open" /\ fc_calls' = fc_calls + 1
    /\ fc_handle' = 0 /\ fc_exc' = "none" /\ fc_result' = "none"
    /\ UNCHANGED ga_calls

\* handle = out.get('return'); GuestError without a handle; else the first
\* guest_file_read / the guest_file_write inside try
file_content_opened ==
    /\ fc_pc = "open" /\ ga_pc = "idle"
    /\ IF ga_raised # "none"
       THEN FileEnd(ga_raised) /\ UNCHANGED <<fc_handle, fc_exc, fc_log>>
       ELSE IF ~("return" \in DOMAIN ga_ret /\ ga_ret.return # 0)
       THEN FileEnd("GuestError") /\ UNCHANGED <<fc_handle, fc_exc, fc_log>>
       ELSE /\ fc_handle' = ga_ret.return
            /\ fc_pc' = "io"
            /\ IF fc_op = "read_file_content"
               THEN FileSend("guest_file_read", "guest-file-read",
                             guest_file_read(ga_ret.return), ga_ret.return)
               ELSE FileSend("guest_file_write", "guest-file-write",
                             guest_file_write(ga_ret.return, "YQ=="), ga_ret.return)
            /\ UNCHANGED <<fc_exc, fc_result>>
    /\ UNCHANGED <<fc_op, fc_calls, ga_calls>>

\* (variant: without finally, an exception leaves the method at once)
file_content_io_raise ==
    /\ fc_pc = "io" /\ ga_pc = "idle"
    /\ LET keys == IF fc_op = "read_file_content" THEN {"eof", "buf_b64"} ELSE {"count"}
           exc == IF ga_raised # "none" THEN ga_raised
                  ELSE IF \E k \in keys : ~HasKey(ga_ret, <<"return", k>>)
                  THEN "ValueError"
                  ELSE "none"
       IN  IF exc # "none"
           THEN FileEnd(exc) /\ UNCHANGED <<fc_exc, fc_log>>
           ELSE IF fc_op = "read_file_content" /\ ~ga_ret.return.eof
           THEN /\ FileSend("guest_file_read", "guest-file-read",
                            guest_file_read(fc_handle), fc_handle)
                /\ UNCHANGED <<fc_pc, fc_exc>>
           ELSE /\ FileSend("guest_file_close", "guest-file-close",
                            guest_file_close(fc_handle), fc_handle)
                /\ fc_pc' = "close" /\ fc_exc' = exc
    /\ UNCHANGED <<fc_op, fc_handle, fc_calls, ga_calls>>

\* the reply of guest_file_read / guest_file_write: the next read while not eof; else,
\* and whatever was raised, guest_file_close(handle) in finally
file_content_io ==
    /\ fc_pc = "io" /\ ga_pc = "idle"
    /\ LET keys == IF fc_op = "read_file_content" THEN {"eof", "buf_b64"} ELSE {"count"}
           exc == IF ga_raised # "none" THEN ga_raised
                  ELSE IF \E k \in keys : ~HasKey(ga_ret, <<"return", k>>)
                  THEN "ValueError"
                  ELSE "none"
       IN  IF exc = "none" /\ fc_op = "read_file_content" /\ ~ga_ret.return.eof
           THEN /\ FileSend("guest_file_read", "guest-file-read",
                            guest_file_read(fc_handle), fc_handle)
                /\ UNCHANGED <<fc_pc, fc_exc>>
           ELSE /\ FileSend("guest_file_close", "guest-file-close",
                            guest_file_close(fc_handle), fc_handle)
                /\ fc_pc' = "close" /\ fc_exc' = exc
    /\ UNCHANGED <<fc_op, fc_handle, fc_result, fc_calls, ga_calls>>

\* after guest_file_close: what it raised, else what the try block raised, else the
\* content / the count
file_content_closed ==
    /\ fc_pc = "close" /\ ga_pc = "idle"
    /\ FileEnd(IF ga_raised # "none" THEN ga_raised
               ELSE IF fc_exc # "none" THEN fc_exc ELSE "ok")
    /\ UNCHANGED <<fc_op, fc_handle, fc_exc, fc_log, fc_calls, ga_calls>>

\* ------------------------------------------ VmmTestingSetup.teardown
\* conftest.py poweroff_vms / teardown over the Device methods above. A VM is
\* seen here by is_running() and by whether its poweroff() returns or raises.
NumVms == 2         \* VMs of the test setup

Vms == 1..NumVms
Step_(s, a) == [step |-> s, arg |-> a]

TdInit ==
    td = [pc |-> "none", vm |-> 1, running |-> {}, unload |-> FALSE, failed |-> {},
          num_vfs |-> 0, log |-> <<>>, result |-> "none"]

\* the fixture resumes after yield and calls ts.teardown(): some VMs are running,
\* unload_host_drivers_on_teardown is what the test configuration says
teardown ==
    /\ td.pc = "none" /\ dev_pc = "idle" /\ prov_op = "init"
    /\ \E running \in SUBSET Vms, unload \in BOOLEAN :
        td' = [td EXCEPT !.pc = "poweroff_vms", !.running = running, !.unload = unload]
    /\ UNCHANGED <<vfVars, provVars>>

\* poweroff_vms, one round of the loop: if vm.is_running(): try: vm.poweroff()
\* except Exception: unload_host_drivers_on_teardown = True
poweroff_vms ==
    /\ td.pc = "poweroff_vms" /\ td.vm <= NumVms
    /\ IF td.vm \in td.running
       THEN \E raised \in BOOLEAN :
              td' = [td EXCEPT !.vm = @ + 1,
                               !.unload = @ \/ raised,
                               !.failed = IF raised THEN @ \cup {td.vm} ELSE @,
                               !.log = Append(@, Step_("poweroff", td.vm))]
       ELSE td' = [td EXCEPT !.vm = @ + 1]
    /\ UNCHANGED <<vfVars, provVars>>

\* poweroff_vms after the loop raises GuestError if the flag is set; teardown logs
\* it; finally: num_vfs = get_current_vfs(); remove_vfs() is entered
teardown_finally ==
    /\ td.pc = "poweroff_vms" /\ td.vm > NumVms
    /\ td' = [td EXCEPT !.pc = "remove_vfs", !.num_vfs = sriov_numvfs,
                        !.log = @ \o <<Step_("get_current_vfs", sriov_numvfs),
                                       Step_("remove_vfs", 0)>>]
    /\ dev_op' = "remove_vfs" /\ dev_pc' = "remove_vfs" /\ num' = 0 /\ val' = FALSE
    /\ dev_result' = "none" /\ nested' = FALSE
    /\ dev_hist' = [op |-> dev_op, result |-> dev_result, vfs |-> sriov_numvfs]
    /\ UNCHANGED <<sriov_numvfs, sriov_drivers_autoprobe, dev_ret, dev_calls>>
    /\ UNCHANGED provVars

\* remove_vfs() raised: the exception leaves the finally block and teardown
teardown_remove_vfs_raised ==
    /\ td.pc = "remove_vfs" /\ dev_pc = "idle" /\ dev_result # "ok"
    /\ td' = [td EXCEPT !.pc = "done", !.result = dev_result]
    /\ UNCHANGED <<vfVars, provVars>>

\* remove_vfs() returned: reset_provisioning(num_vfs); it raises where a write fails
teardown_reset_provisioning ==
    /\ td.pc = "remove_vfs" /\ dev_pc = "idle" /\ dev_result = "ok"
    /\ ProvRun("reset_provisioning", td.num_vfs,
               ResetWrites(td.num_vfs, num_gts, has_lmem), <<>>)
    /\ td' = [td EXCEPT !.pc = IF prov_result' = "ok" THEN "cancel_work" ELSE "done",
                        !.result = IF prov_result' = "ok" THEN @ ELSE prov_result',
                        !.log = Append(@, Step_("reset_provisioning", td.num_vfs))]
    /\ UNCHANGED vfVars

\* cancel_work(); if unload_host_drivers_on_teardown: host.unload_drivers()
teardown_cancel_work ==
    /\ td.pc = "cancel_work"
    /\ td' = [td EXCEPT !.pc = "done", !.result = "ok",
                        !.log = @ \o <<Step_("cancel_work", 0)>>
                                  \o (IF td.unload THEN <<Step_("unload_drivers", 0)>>
                                      ELSE <<>>)]
    /\ UNCHANGED <<vfVars, provVars>>

OtherInit == GuardInit /\ VfInit /\ ProvInit /\ CfgInit /\ GaInit /\ TdInit

\* ------------------------------------------------------------------ Init
\* VirtualMachine.__init__: no process, no clients.
Init ==
    /\ process = "none" /\ terminated = 0
    /\ gaSock = FALSE /\ qmpSock = FALSE
    /\ migrate_destination_vm = FALSE
    /\ clients = FALSE /\ connected = FALSE
    /\ qmpOut = <<>> /\ wire = <<>> /\ qmp_queue = <<>>
    /\ written = <<>> /\ popped = <<>> /\ recording = FALSE /\ lastPop = EmptyDict
    /\ pcB = "idle" /\ reset_event_countB = 0 /\ popsB = <<>>
    /\ OtherInit
    /\ gaOut = <<>> /\ gaWire = <<>>
    /\ jobs = <<>> /\ owed = <<>> /\ evCount = 0 /\ gaCount = 0
    /\ op = "none" /\ pc = "idle"
    /\ mode = "mem" /\ ret = EmptyDict /\ vm_status = ""
    /\ reset_event_count = 0 /\ job_status = "" /\ job_error = ""
    /\ node_name = "" /\ exec_status = EmptyDict /\ pending = ""
    /\ result = "none" /\ alarm = FALSE /\ expired = FALSE
    /\ nops = 0 /\ opLog = <<>>
    /\ prev = [op |-> "none", result |-> "none", vm_status |-> ""]

\* set_migration_source, before the VM is started
set_migration_source ==
    /\ pc = "idle" /\ process = "none" /\ ~migrate_destination_vm
    /\ migrate_destination_vm' = TRUE
    /\ UNCHANGED <<process, gaSock, qmpSock, clients, connected, terminated, qmpVars,
                   gaVars, envVars, locVars, callVars>>

\* The test calls an operation; timeout_wrapper arms the alarm of a decorated one.
\* Every operation but poweron uses self.ga / self.qm, which poweron creates.
Call(o, md) ==
    /\ pc = "idle" /\ nops < MaxOps
    /\ o = "poweron" \/ clients
    /\ op' = o /\ pc' = o /\ mode' = md
    /\ alarm' = (IF o \in Decorated THEN TRUE ELSE alarm) /\ expired' = FALSE
    /\ result' = "none" /\ opLog' = <<>>
    /\ prev' = [op |-> op, result |-> result, vm_status |-> vm_status]
    /\ ret' = EmptyDict /\ vm_status' = "" /\ reset_event_count' = 0
    /\ job_status' = "" /\ job_error' = "" /\ node_name' = ""
    /\ exec_status' = EmptyDict /\ pending' = ""
    /\ lastPop' = EmptyDict
    /\ UNCHANGED <<nops, procVars, qmpOut, wire, qmp_queue, written, popped, aux, gaVars, envVars>>

\* SIGALRM is delivered while the operation is blocked: alarm_handler raises.
Blocking == {"poweron_sockets", "query_status_get", "ga_ping_recv", "wait_event",
             "count_resets", "poweroff_communicate", "snapshot_get", "job_wait",
             "query_jobs_get", "link_exec_recv", "exec_status_recv", "exec_wait_sleep",
             "unmask_recv"}
AlarmFire ==
    /\ alarm /\ pc \in Blocking
    /\ expired' = TRUE
    /\ Throw("AlarmTimeoutError")
    /\ UNCHANGED <<sockVars, qmpVars, gaVars, envVars, loc, op, opLog, prev>>

\* ---------------------------------------------------------------- poweron
\* poweron up to Popen
\* variant: poweron spawns a process whether or not one is running
poweron_begin_always ==
    /\ pc = "poweron"
    /\ process' = "alive" /\ connected' = FALSE /\ jobs' = <<>> /\ owed' = <<>>
    /\ terminated' = 0
    /\ Goto("poweron_started") /\ UNCHANGED pending
    /\ UNCHANGED <<gaSock, qmpSock, migrate_destination_vm, clients, qmpVars, gaVars,
                   evCount, gaCount, loc, ghost>>

poweron_begin ==
    /\ pc = "poweron"
    /\ IF is_running
       THEN Return("ok") /\ UNCHANGED <<process, connected, jobs, owed>>
       ELSE /\ process' = "alive" /\ connected' = FALSE /\ jobs' = <<>> /\ owed' = <<>>
            /\ terminated' = 0
            /\ Goto("poweron_started") /\ UNCHANGED pending
    /\ UNCHANGED <<gaSock, qmpSock, migrate_destination_vm, clients, qmpVars, gaVars,
                   evCount, gaCount, loc, ghost>>

\* if not self.is_running(): raise GuestError
poweron_started ==
    /\ pc = "poweron_started"
    /\ IF is_running THEN Step("poweron_sockets") ELSE Return("GuestError")
    /\ UNCHANGED <<sockVars, qmpVars, gaVars, envVars, loc, ghost>>

\* while not self.__sockets_exists(): sleep(1); then GuestAgentBackend(), QmpMonitor()
\* (connect, start the reader thread, qmp_capabilities) and query_status's write
poweron_sockets ==
    /\ pc = "poweron_sockets" /\ sockets_exists
    /\ IF process = "alive"
       THEN /\ clients' = TRUE /\ connected' = TRUE
            /\ qmp_queue' = <<>> /\ popped' = <<>>
            /\ wire' = <<Greeting>>
            /\ written' = IF recording THEN <<Greeting>> ELSE <<>>
            /\ UNCHANGED <<aux, lastPop>>
            /\ qmpOut' = <<Cmd("qmp_capabilities"), Cmd("query-status")>>
            /\ gaOut' = <<>> /\ gaWire' = <<>>
            /\ opLog' = opLog \o <<Sent(Cmd("qmp_capabilities")), Sent(Cmd("query-status"))>>
            /\ Step("query_status_get")
       ELSE /\ Throw("ConnectionRefusedError")
            /\ UNCHANGED <<clients, connected, qmpVars, gaVars, opLog>>
    /\ UNCHANGED <<process, gaSock, qmpSock, migrate_destination_vm, envVars, loc,
                   op, expired, prev>>

\* ----------------------------------------------------------- query_status
\* variant: the loop ends at the first response, whatever it holds
query_status_first_return ==
    /\ pc = "query_status_get"
    /\ QmpPop
    /\ LET qmp_msg == QueueGet(qmp_queue) IN
        /\ ret' = QueryStatusRet(ret, qmp_msg)
        /\ IF "return" \in DOMAIN qmp_msg
           THEN /\ vm_status' = Get(ret', "status", None)
                /\ Log(Popped(qmp_msg)) /\ Step("check_status")
           ELSE UNCHANGED <<vm_status, opLog>> /\ Step("query_status_get")
    /\ UNCHANGED <<sockVars, qmpOut, wire, written, aux, gaVars, envVars, mode,
                   reset_event_count, job_status, job_error, node_name, exec_status,
                   op, expired, prev>>

\* variant: query_status puts the messages it does not return back on the queue
query_status_get_requeue ==
    /\ pc = "query_status_get"
    /\ qmp_queue # <<>>
    /\ LET qmp_msg == QueueGet(qmp_queue) IN
        /\ ret' = QueryStatusRet(ret, qmp_msg)
        /\ popped' = IF recording THEN Append(popped, qmp_msg) ELSE popped
        /\ lastPop' = qmp_msg
        /\ IF StatusKnown(ret')
           THEN /\ vm_status' = ret'.status /\ Log(Popped(qmp_msg)) /\ Step("check_status")
                /\ qmp_queue' = QueueRest(qmp_queue)
           ELSE /\ UNCHANGED <<vm_status, opLog>> /\ Step("query_status_get")
                /\ qmp_queue' = QueuePut(QueueRest(qmp_queue), qmp_msg)
    /\ UNCHANGED <<sockVars, qmpOut, wire, written, aux, gaVars, envVars, mode,
                   reset_event_count, job_status, job_error, node_name, exec_status,
                   op, expired, prev>>

\* one turn of query_status's loop: pop a message, return once ret has 'status'
query_status_get ==
    /\ pc = "query_status_get"
    /\ QmpPop
    /\ LET qmp_msg == QueueGet(qmp_queue) IN
        /\ ret' = QueryStatusRet(ret, qmp_msg)
        /\ IF StatusKnown(ret')
           THEN vm_status' = ret'.status /\ Log(Popped(qmp_msg)) /\ Step("check_status")
           ELSE UNCHANGED <<vm_status, opLog>> /\ Step("query_status_get")
    /\ UNCHANGED <<sockVars, qmpOut, wire, written, aux, gaVars, envVars, mode,
                   reset_event_count, job_status, job_error, node_name, exec_status,
                   op, expired, prev>>

\* variant: pause and resume compare with each other's status
ExpectedSwapped(o) ==
    CASE o = "resume" -> "paused"
      [] o = "suspend" -> "suspended"
      [] OTHER -> "running"

\* the status an operation requires after its command
Expected(o) ==
    CASE o = "pause" -> "paused"
      [] o = "suspend" -> "suspended"
      [] OTHER -> "running"

\* the comparison of vm_status that follows query_status
check_status ==
    /\ pc = "check_status"
    /\ IF op = "poweron"
       THEN IF ~migrate_destination_vm /\ vm_status # "running"
            \* terminate, raise GuestError; caught by except Exception: terminate, raise
            THEN terminated' = terminated + 2 /\ EndOp("GuestError") /\ UNCHANGED pending
            ELSE Return("ok")
       ELSE IF vm_status # Expected(op)
            THEN terminated' = terminated + 1 /\ EndOp("GuestError") /\ UNCHANGED pending
            ELSE Return("ok")
    /\ UNCHANGED <<sockVars, qmpVars, gaVars, envVars, loc, ghost>>

\* ------------------------------------------------------- pause and resume
\* pause: qm.stop(), then query_status's write
pause_begin ==
    /\ pc = "pause"
    /\ QmpSend(<<Cmd("stop"), Cmd("query-status")>>, "query_status_get", <<>>)
    /\ UNCHANGED <<sockVars, wire, qmp_queue, written, popped, aux, lastPop, gaVars, envVars, loc,
                   op, expired, prev>>

\* resume: qm.cont(), then query_status's write
resume_begin ==
    /\ pc = "resume"
    /\ QmpSend(<<Cmd("cont"), Cmd("query-status")>>, "query_status_get", <<>>)
    /\ UNCHANGED <<sockVars, wire, qmp_queue, written, popped, aux, lastPop, gaVars, envVars, loc,
                   op, expired, prev>>

\* --------------------------------------------- guest agent: fire and forget
\* GuestAgentBackend.poweroff / reboot / suspend_ram: the command written after ping()
FireCmd(o) ==
    CASE o = "poweroff" -> CmdArgs("guest-shutdown", [mode |-> "powerdown"])
      [] o = "reboot" -> CmdArgs("guest-shutdown", [mode |-> "reboot"])
      [] OTHER -> Cmd("guest-suspend-ram")

\* variant: a single RESET event ends the wait
ResetEventsOnce == 2 - 1

\* the number of RESET events reboot and reset wait for
ResetEvents == 2

\* ping()'s readline inside poweroff / reboot / suspend_ram, then the command's write
ga_ping_recv ==
    /\ pc = "ga_ping_recv" /\ GaLineReady
    /\ IF GaAtEof
       THEN /\ Throw("JSONDecodeError")
            /\ UNCHANGED <<gaVars, opLog, reset_event_count>>
       ELSE /\ IF PeerOpen
               THEN /\ gaOut' = Append(gaOut, FireCmd(op))
                    /\ Log(GaSent(FireCmd(op)))
                    /\ Step(IF op = "reboot" THEN "count_resets" ELSE "wait_event")
               ELSE /\ UNCHANGED <<gaOut, opLog>>
                    /\ Throw("BrokenPipeError")
            /\ gaWire' = Tail(gaWire)
            /\ reset_event_count' = IF op = "reboot" THEN ResetEvents ELSE reset_event_count
    /\ UNCHANGED <<sockVars, qmpVars, envVars, mode, ret, vm_status, job_status, job_error,
                   node_name, exec_status, op, expired, prev>>

\* ------------------------------------------------------------- event waits
\* the event poweroff / quit / suspend / wakeup waits for
Awaited(o) ==
    CASE o = "suspend" -> "SUSPEND"
      [] o = "wakeup" -> "WAKEUP"
      [] OTHER -> "SHUTDOWN"

\* one turn of `event = get_qmp_event(); while event != X`, and what follows the loop
wait_event ==
    /\ pc = "wait_event"
    /\ QmpPop
    /\ LET qmp_msg == QueueGet(qmp_queue) IN
        IF get_qmp_event(qmp_msg) # Awaited(op)
        THEN UNCHANGED <<opLog, qmpOut>> /\ Step("wait_event")
        ELSE CASE op = "poweroff" ->
                    Log(Popped(qmp_msg)) /\ Step("poweroff_communicate") /\ UNCHANGED qmpOut
               [] op = "quit" ->
                    Log(Popped(qmp_msg)) /\ Return("ok") /\ UNCHANGED qmpOut
               [] OTHER ->
                    QmpSend(<<Cmd("query-status")>>, "query_status_get", <<Popped(qmp_msg)>>)
    /\ UNCHANGED <<sockVars, wire, written, aux, gaVars, envVars, loc, op, expired,
                   prev>>

\* one turn of reboot's / reset's loop: count a RESET event
count_resets ==
    /\ pc = "count_resets"
    /\ QmpPop
    /\ LET qmp_msg == QueueGet(qmp_queue) IN
        IF get_qmp_event(qmp_msg) = "RESET"
        THEN reset_event_count' = reset_event_count - 1 /\ Log(Popped(qmp_msg))
        ELSE UNCHANGED <<reset_event_count, opLog>>
    /\ IF reset_event_count' > 0 THEN Step("count_resets") ELSE Return("ok")
    /\ UNCHANGED <<sockVars, qmpOut, wire, written, aux, gaVars, envVars, mode, ret, vm_status,
                   job_status, job_error, node_name, exec_status, op, expired, prev>>

\* --------------------------------------------------------------- poweroff
\* poweroff up to ga.poweroff()'s ping write
poweroff_begin ==
    /\ pc = "poweroff"
    /\ IF is_running
       THEN GaSend(Cmd("guest-ping"), "ga_ping_recv", <<>>)
       ELSE Return("ok") /\ UNCHANGED <<gaOut, opLog>>
    /\ UNCHANGED <<sockVars, qmpVars, gaWire, envVars, loc, op, expired, prev>>

\* variant: only the guest-agent socket is removed
poweroff_communicate_one ==
    /\ pc = "poweroff_communicate" /\ process = "exited"
    /\ IF sockets_exists
       THEN gaSock' = FALSE /\ UNCHANGED qmpSock /\ Return("GuestError")
       ELSE UNCHANGED <<gaSock, qmpSock>> /\ Return(IF pending = "" THEN "ok" ELSE pending)
    /\ UNCHANGED <<process, migrate_destination_vm, clients, connected, qmpVars, gaVars,
                   envVars, loc, ghost>>

\* the finally block: process.communicate() returns once the process has exited,
\* then leftover sockets are removed and reported
poweroff_communicate ==
    /\ pc = "poweroff_communicate" /\ process = "exited"
    /\ IF sockets_exists
       THEN gaSock' = FALSE /\ qmpSock' = FALSE /\ Return("GuestError")
       ELSE UNCHANGED <<gaSock, qmpSock>> /\ Return(IF pending = "" THEN "ok" ELSE pending)
    /\ UNCHANGED <<process, migrate_destination_vm, clients, connected, qmpVars, gaVars,
                   envVars, loc, ghost>>

\* ------------------------------------------------ reboot, reset, quit, wakeup
reboot_begin ==
    /\ pc = "reboot"
    /\ GaSend(Cmd("guest-ping"), "ga_ping_recv", <<>>)
    /\ UNCHANGED <<sockVars, qmpVars, gaWire, envVars, loc, op, expired, prev>>

reset_begin ==
    /\ pc = "reset"
    /\ QmpSend(<<Cmd("system_reset")>>, "count_resets", <<>>)
    /\ reset_event_count' = ResetEvents
    /\ UNCHANGED <<sockVars, wire, qmp_queue, written, popped, aux, lastPop, gaVars, envVars, mode, ret,
                   vm_status, job_status, job_error, node_name, exec_status, op, expired,
                   prev>>

quit_begin ==
    /\ pc = "quit"
    /\ QmpSend(<<Cmd("quit")>>, "wait_event", <<>>)
    /\ UNCHANGED <<sockVars, wire, qmp_queue, written, popped, aux, lastPop, gaVars, envVars, loc,
                   op, expired, prev>>

wakeup_begin ==
    /\ pc = "wakeup"
    /\ QmpSend(<<Cmd("system_wakeup")>>, "wait_event", <<>>)
    /\ UNCHANGED <<sockVars, wire, qmp_queue, written, popped, aux, lastPop, gaVars, envVars, loc,
                   op, expired, prev>>

\* ---------------------------------------------------------------- suspend
\* link_exists: status.exit_code is false (0 or None)
LinkExists(status) == ~("exitcode" \in DOMAIN status /\ status.exitcode # 0)

ExecLink   == CmdArgs("guest-exec", [path |-> "/bin/sh", arg |-> "[ -h suspend.target ]"])
ExecUnmask == CmdArgs("guest-exec", [path |-> "systemctl", arg |-> "unmask"])
ExecStatus == CmdArgs("guest-exec-status", [pid |-> 1])

\* suspend: _enable_suspend -> link_exists -> execute: guest-exec is written
suspend_begin ==
    /\ pc = "suspend"
    /\ GaSend(ExecLink, "link_exec_recv", <<>>)
    /\ UNCHANGED <<sockVars, qmpVars, gaWire, envVars, loc, op, expired, prev>>

\* execute's reply (a pid, or GuestError), then execute_wait is entered: timeout_wrapper
\* arms the alarm, execute_status writes guest-exec-status
link_exec_recv ==
    /\ pc = "link_exec_recv" /\ GaLineReady
    /\ IF GaAtEof
       THEN Throw("JSONDecodeError") /\ UNCHANGED <<gaVars, opLog>>
       ELSE /\ gaWire' = Tail(gaWire)
            /\ IF ~Truthy(Get(Head(gaWire), "return", EmptyDict))
               THEN Throw("GuestError") /\ UNCHANGED <<gaOut, opLog>>
               ELSE IF PeerOpen
               THEN /\ gaOut' = Append(gaOut, ExecStatus)
                    /\ Log(GaSent(ExecStatus))
                    /\ pc' = "exec_status_recv" /\ alarm' = TRUE
                    /\ UNCHANGED <<result, nops, terminated, pending>>
               ELSE Throw("BrokenPipeError") /\ UNCHANGED <<gaOut, opLog>>
    /\ UNCHANGED <<sockVars, qmpVars, envVars, loc, op, expired, prev>>

\* execute_status's reply inside execute_wait's loop
exec_status_recv ==
    /\ pc = "exec_status_recv" /\ GaLineReady
    /\ IF GaAtEof
       THEN Throw("JSONDecodeError") /\ UNCHANGED <<gaWire, exec_status>>
       ELSE /\ gaWire' = Tail(gaWire)
            /\ LET status == Get(Head(gaWire), "return", EmptyDict) IN
                IF Truthy(status)
                THEN exec_status' = status /\ Step("exec_wait_sleep")
                ELSE UNCHANGED exec_status /\ Throw("GuestError")
    /\ UNCHANGED <<sockVars, qmpVars, gaOut, envVars, mode, ret, vm_status,
                   reset_event_count, job_status, job_error, node_name, ghost>>

\* after sleep(1): another turn of execute_wait's loop, or its return (the alarm is
\* cancelled), link_exists's result and the unmask command
exec_wait_sleep ==
    /\ pc = "exec_wait_sleep"
    /\ IF ~Get(exec_status, "exited", FALSE)
       THEN GaSend(ExecStatus, "exec_status_recv", <<>>)
       ELSE IF LinkExists(exec_status)
       THEN IF PeerOpen
            THEN /\ gaOut' = Append(gaOut, ExecUnmask)
                 /\ Log(GaSent(ExecUnmask))
                 /\ pc' = "unmask_recv" /\ alarm' = FALSE
                 /\ UNCHANGED <<result, nops, terminated, pending>>
            ELSE Throw("BrokenPipeError") /\ UNCHANGED <<gaOut, opLog>>
       ELSE /\ pc' = "suspend_mode" /\ alarm' = FALSE
            /\ UNCHANGED <<result, nops, terminated, pending, gaOut, opLog>>
    /\ UNCHANGED <<sockVars, qmpVars, gaWire, envVars, loc, op, expired, prev>>

\* the reply to the unmask command: a pid, or GuestError
unmask_recv ==
    /\ pc = "unmask_recv" /\ GaLineReady
    /\ IF GaAtEof
       THEN Throw("JSONDecodeError") /\ UNCHANGED <<gaVars, opLog>>
       ELSE /\ gaWire' = Tail(gaWire)
            /\ IF Truthy(Get(Head(gaWire), "return", EmptyDict))
               THEN Step("suspend_mode")
               ELSE Throw("GuestError")
            /\ UNCHANGED <<gaOut, opLog>>
    /\ UNCHANGED <<sockVars, qmpVars, envVars, loc, op, expired, prev>>

\* variant: every mode suspends to RAM
suspend_mode_any ==
    /\ pc = "suspend_mode"
    /\ GaSend(Cmd("guest-ping"), "ga_ping_recv", <<>>)
    /\ UNCHANGED <<sockVars, qmpVars, gaWire, envVars, loc, op, expired, prev>>

\* `if mode == ACPI_S3: ga.suspend_ram() elif mode == ACPI_S4: raise GuestError`,
\* up to suspend_ram's ping write
suspend_mode ==
    /\ pc = "suspend_mode"
    /\ IF mode = "mem"
       THEN GaSend(Cmd("guest-ping"), "ga_ping_recv", <<>>)
       ELSE Return("GuestError") /\ UNCHANGED <<gaOut, opLog>>
    /\ UNCHANGED <<sockVars, qmpVars, gaWire, envVars, loc, op, expired, prev>>

\* ------------------------------------------------- save_state, load_state
JobType(o) == IF o = "save_state" THEN "snapshot-save" ELSE "snapshot-load"

\* the snapshot-save / snapshot-load command; job_id is unique per call (time.time()),
\* here the number of the operation
SnapshotCmd(t, job_id, node) ==
    CmdArgs(t, ("job-id" :> job_id) @@ [vmstate |-> node, devices |-> <<node>>])

\* save_snapshot / load_snapshot: __query_snapshot's write
snapshot_begin ==
    /\ pc \in {"save_state", "load_state"}
    /\ QmpSend(<<Cmd("query-named-block-nodes")>>, "snapshot_get", <<>>)
    /\ UNCHANGED <<sockVars, wire, qmp_queue, written, popped, aux, lastPop, gaVars, envVars, loc,
                   op, expired, prev>>

\* __query_snapshot's single get, then the snapshot job command
snapshot_get ==
    /\ pc = "snapshot_get"
    /\ QmpPop
    /\ LET qmp_msg == QueueGet(qmp_queue)
           q == query_snapshot(qmp_msg)
       IN IF q[2] # ""
          THEN /\ Throw(q[2]) /\ Log(Popped(qmp_msg))
               /\ UNCHANGED <<qmpOut, node_name>>
          ELSE /\ node_name' = q[1]
               /\ QmpSend(<<SnapshotCmd(JobType(op), nops, q[1])>>,
                          "job_wait", <<Popped(qmp_msg)>>)
    /\ UNCHANGED <<sockVars, wire, written, aux, gaVars, envVars, mode, ret,
                   vm_status, reset_event_count, job_status, job_error, exec_status, op,
                   expired, prev>>

\* one turn of `while job_status != 'concluded'`, then query_jobs's write
job_wait ==
    /\ pc = "job_wait"
    /\ QmpPop
    /\ LET qmp_msg == QueueGet(qmp_queue) IN
        /\ job_status' = get_qmp_event_job(qmp_msg)
        /\ IF job_status' # "concluded"
           THEN UNCHANGED <<opLog, qmpOut>> /\ Step("job_wait")
           ELSE QmpSend(<<Cmd("query-jobs")>>, "query_jobs_get", <<Popped(qmp_msg)>>)
    /\ UNCHANGED <<sockVars, wire, written, aux, gaVars, envVars, mode, ret,
                   vm_status, reset_event_count, job_error, node_name, exec_status, op,
                   expired, prev>>

\* query_jobs's single get and the check of its result
query_jobs_get ==
    /\ pc = "query_jobs_get"
    /\ QmpPop
    /\ LET qmp_msg == QueueGet(qmp_queue)
           q == query_jobs(qmp_msg, JobType(op))
       IN /\ Log(Popped(qmp_msg))
          /\ IF q[3] # ""
             THEN Throw(q[3]) /\ UNCHANGED <<job_status, job_error>>
             ELSE /\ job_status' = q[1] /\ job_error' = q[2]
                  /\ IF q[1] = "concluded" /\ q[2] # None
                     THEN Return("GuestError") ELSE Return("ok")
    /\ UNCHANGED <<sockVars, qmpOut, wire, written, aux, gaVars, envVars, mode, ret,
                   vm_status, reset_event_count, node_name, exec_status, op, expired, prev>>

\* ------------------------------------------- a second caller of the same VM
\* reset() called from a second thread: qm.system_reset(), reset_event_count = 2
reset_begin_t2 ==
    /\ pcB = "idle" /\ clients /\ PeerOpen
    /\ qmpOut' = Append(qmpOut, Cmd("system_reset"))
    /\ reset_event_countB' = ResetEvents
    /\ pcB' = "count_resets"
    /\ UNCHANGED <<procVars, wire, qmp_queue, written, popped, recording, popsB, lastPop, other,
                   gaVars, envVars, locVars, callVars>>

\* variant: the second thread puts back what is not an event
count_resets_t2_requeue ==
    /\ pcB = "count_resets" /\ qmp_queue # <<>>
    /\ qmp_queue' = IF get_qmp_event(QueueGet(qmp_queue)) = ""
                    THEN Append(QueueRest(qmp_queue), QueueGet(qmp_queue))
                    ELSE QueueRest(qmp_queue)
    /\ popsB' = Append(popsB, QueueGet(qmp_queue))
    /\ reset_event_countB' = IF get_qmp_event(QueueGet(qmp_queue)) = "RESET"
                             THEN reset_event_countB - 1 ELSE reset_event_countB
    /\ pcB' = IF reset_event_countB' > 0 THEN "count_resets" ELSE "done"
    /\ UNCHANGED <<procVars, qmpOut, wire, written, popped, recording, lastPop, other,
                   gaVars, envVars, locVars, callVars>>

\* one turn of the second thread's loop over get_qmp_event()
count_resets_t2 ==
    /\ pcB = "count_resets" /\ qmp_queue # <<>>
    /\ qmp_queue' = QueueRest(qmp_queue)
    /\ popsB' = Append(popsB, QueueGet(qmp_queue))
    /\ reset_event_countB' = IF get_qmp_event(QueueGet(qmp_queue)) = "RESET"
                             THEN reset_event_countB - 1 ELSE reset_event_countB
    /\ pcB' = IF reset_event_countB' > 0 THEN "count_resets" ELSE "done"
    /\ UNCHANGED <<procVars, qmpOut, wire, written, popped, recording, lastPop, other,
                   gaVars, envVars, locVars, callVars>>

\* --------------------------------------------------------- specifications
\* The state poweron leaves behind when it succeeded and its query_status drained
\* the greeting, the reply to qmp_capabilities and the status reply.
RunningWith(rec) ==
    /\ process = "alive" /\ terminated = 0
    /\ gaSock = TRUE /\ qmpSock = TRUE
    /\ migrate_destination_vm = FALSE
    /\ clients = TRUE /\ connected = TRUE
    /\ qmpOut = <<>> /\ wire = <<>> /\ qmp_queue = <<>>
    /\ recording = rec
    /\ written = IF rec THEN <<Greeting, RetMsg(EmptyDict), StatusMsg("running")>> ELSE <<>>
    /\ popped = written
    /\ lastPop = StatusMsg("running")
    /\ pcB = "idle" /\ reset_event_countB = 0 /\ popsB = <<>>
    /\ OtherInit
    /\ gaOut = <<>> /\ gaWire = <<>>
    /\ jobs = <<>> /\ owed = <<>> /\ evCount = 0 /\ gaCount = 0
    /\ op = "poweron" /\ pc = "idle"
    /\ mode = "mem" /\ ret = StatusMsg("running").return /\ vm_status = "running"
    /\ reset_event_count = 0 /\ job_status = "" /\ job_error = ""
    /\ node_name = "" /\ exec_status = EmptyDict /\ pending = ""
    /\ result = "ok" /\ alarm = FALSE /\ expired = FALSE
    /\ nops = 0
    /\ opLog = <<Sent(Cmd("qmp_capabilities")), Sent(Cmd("query-status")),
                 Popped(StatusMsg("running"))>>
    /\ prev = [op |-> "none", result |-> "none", vm_status |-> ""]

Running == RunningWith(FALSE)
RunningRecorded == RunningWith(TRUE)

Shared == query_status_get \/ check_status \/ AlarmFire \/ HvRespond \/ Reader

\* power-on and power-off of a new VM
PowerOps == {"poweron", "poweroff"}
NextPower ==
    \/ \E o \in PowerOps : Call(o, "mem")
    \/ set_migration_source
    \/ poweron_begin \/ poweron_started \/ poweron_sockets
    \/ poweroff_begin \/ ga_ping_recv \/ wait_event \/ poweroff_communicate
    \/ HvEmit \/ HvEvent("RESET")
    \/ HvCreateSockets \/ AgentReply
    \/ \E keep \in BOOLEAN : ProcExit(keep, keep)
    \/ Shared
SpecPower == Init /\ [][NextPower]_vars

\* pause and resume of a VM that was powered on
PauseOps == {"pause", "resume"}
NextPause ==
    \/ \E o \in PauseOps : Call(o, "mem")
    \/ pause_begin \/ resume_begin
    \/ query_status_get \/ check_status
    \/ HvEvent("RESET")
    \/ ProcExit(FALSE, FALSE)
    \/ HvRespond \/ Reader
SpecPause == Running /\ [][NextPause]_vars

\* reboot, reset and quit of a VM that was powered on
ResetOps == {"reboot", "reset", "quit"}
NextReset ==
    \/ \E o \in ResetOps : Call(o, "mem")
    \/ reboot_begin \/ reset_begin \/ quit_begin
    \/ ga_ping_recv \/ count_resets \/ wait_event
    \/ HvEmit \/ \E e \in {"RESET", "SHUTDOWN"} : HvEvent(e)
    \/ ProcExit(FALSE, FALSE) \/ AgentReply
    \/ HvRespond \/ Reader
SpecReset == Running /\ [][NextReset]_vars

\* suspend and wakeup of a VM that was powered on
NextSuspend ==
    \/ \E md \in SuspendModes : Call("suspend", md)
    \/ Call("wakeup", "mem")
    \/ suspend_begin \/ link_exec_recv \/ exec_status_recv \/ exec_wait_sleep \/ unmask_recv
    \/ suspend_mode \/ wakeup_begin
    \/ ga_ping_recv \/ wait_event
    \/ HvEmit \/ HvEvent("RESET")
    \/ ProcExit(FALSE, FALSE) \/ AgentReply
    \/ Shared
SpecSuspend == Running /\ [][NextSuspend]_vars

\* snapshots of a VM that was powered on
SnapOps == {"save_state", "load_state"}
NextSnap ==
    \/ \E o \in SnapOps : Call(o, "mem")
    \/ snapshot_begin \/ snapshot_get \/ job_wait \/ query_jobs_get
    \/ HvJobConclude
    \/ HvEvent("RESET")
    \/ ProcExit(FALSE, FALSE)
    \/ AlarmFire \/ HvRespond \/ Reader
SpecSnap == Running /\ [][NextSnap]_vars

\* one caller's waits on the response queue, with the history of the connection kept
FifoOps == {"pause", "reset", "wakeup"}
NextFifo ==
    \/ \E o \in FifoOps : Call(o, "mem")
    \/ pause_begin \/ reset_begin \/ wakeup_begin
    \/ query_status_get \/ check_status \/ wait_event \/ count_resets
    \/ HvEmit \/ \E e \in {"RESET", "WAKEUP"} : HvEvent(e)
    \/ HvRespond \/ Reader
SpecFifo == RunningRecorded /\ [][NextFifo]_vars

\* two callers: one pauses and resumes the VM, a second thread resets it
TwoOps == {"pause", "resume"}
NextTwo ==
    \/ \E o \in TwoOps : Call(o, "mem")
    \/ pause_begin \/ resume_begin
    \/ query_status_get \/ check_status
    \/ reset_begin_t2 \/ count_resets_t2
    \/ HvEmit \/ HvEvent("RESET")
    \/ HvRespond \/ Reader
SpecTwo == Running /\ [][NextTwo]_vars


\* operations called after the VM was powered off
StaleOps == {"poweroff", "pause"}
NextStale ==
    \/ \E o \in StaleOps : Call(o, "mem")
    \/ poweroff_begin \/ ga_ping_recv \/ wait_event \/ poweroff_communicate
    \/ pause_begin
    \/ HvEmit \/ AgentReply
    \/ ProcExit(FALSE, FALSE)
    \/ Shared
SpecStale == Running /\ [][NextStale]_vars

vmVars == <<procVars, qmpOut, wire, qmp_queue, written, popped, lastPop, recording, pcB,
            reset_event_countB, popsB, gaVars, envVars, locVars, callVars>>

\* what the actions of one part leave alone: every other part
exGuard == <<vmVars, vfVars, provVars, later>>
exVf    == <<vmVars, guardVars, provVars, later>>
exProv  == <<vmVars, guardVars, vfVars, later>>
exCfg   == <<vmVars, guardVars, vfVars, provVars, gaBackVars, tdVars>>
exGa    == <<vmVars, guardVars, vfVars, provVars, cfgVars, tdVars>>
exTd    == <<vmVars, guardVars, cfgVars, gaBackVars>>

\* the decorator under every way of calling the methods
NextGuard ==
    \/ (\E f \in GuardedFuncs : GuardedCall(f)) /\ UNCHANGED exGuard
    \/ (\E f \in PlainFuncs : PlainCall(f)) /\ UNCHANGED exGuard
    \/ NestedCall /\ UNCHANGED exGuard
    \/ FuncReturn /\ UNCHANGED exGuard
    \/ FuncRaise /\ UNCHANGED exGuard
    \/ PlainEnd /\ UNCHANGED exGuard
    \/ alarm_handler /\ UNCHANGED exGuard
SpecGuard == Init /\ [][NextGuard]_vars

\* enabling and disabling VFs on a device
VfOps == {"create_vf", "remove_vfs", "set_drivers_autoprobe"}
NextVf ==
    \/ DeviceInit /\ UNCHANGED <<vmVars, guardVars, later>>
    \/ (\E o \in VfOps, n \in 0..TotalVfs, v \in BOOLEAN : DevCall(o, n, v))
          /\ UNCHANGED exVf
    \/ set_drivers_autoprobe /\ UNCHANGED exVf
    \/ create_vf /\ UNCHANGED exVf
    \/ remove_vfs /\ UNCHANGED exVf
    \/ remove_vfs_autoprobe /\ UNCHANGED exVf
    \/ create_vf_autoprobe /\ UNCHANGED exVf
    \/ create_vf_write /\ UNCHANGED exVf
SpecVf == Init /\ [][NextVf]_vars

\* provisioning a device and clearing the provisioning
NextProv ==
    \/ DriverInit /\ UNCHANGED exProv
    \/ provision /\ UNCHANGED exProv
    \/ set_resources /\ UNCHANGED exProv
    \/ reset_provisioning /\ UNCHANGED exProv
SpecProv == Init /\ [][NextProv]_vars

\* provision with the history of what it wrote
\* (the fixture provisions a freshly bound device once)
NextProvision ==
    \/ DriverInitLogged /\ UNCHANGED exProv
    \/ prov_op = "init" /\ provision /\ UNCHANGED exProv
SpecProvision == Init /\ [][NextProvision]_vars

\* provision and the reset that follows it, on a device of one or more GTs
NextProvReset ==
    \/ DriverInitLogged /\ UNCHANGED exProv
    \/ prov_op = "init" /\ provision /\ UNCHANGED exProv
    \/ reset_provisioned /\ UNCHANGED exProv
SpecProvReset == Init /\ [][NextProvReset]_vars

\* the same for every number of GTs the driver may count
NextGts ==
    \/ DriverInitAny /\ UNCHANGED exProv
    \/ prov_op = "init" /\ provision /\ UNCHANGED exProv
    \/ reset_provisioned /\ UNCHANGED exProv
SpecGts == Init /\ [][NextGts]_vars

\* a profile is selected for the test and the device is provisioned with it
NextSetup ==
    \/ DriverInitLogged /\ UNCHANGED exProv
    \/ prov_op = "init" /\ query_vgpu_profiles /\ UNCHANGED exCfg
    \/ setup_get_vgpu_profile /\ UNCHANGED exCfg
    \/ provision_selected /\ UNCHANGED exProv
SpecSetup == Init /\ [][NextSetup]_vars

\* the teardown of a test on a bound device
NextTeardown ==
    \/ DeviceInit /\ UNCHANGED <<vmVars, guardVars, later>>
    \/ DriverInit /\ UNCHANGED exProv
    \/ teardown /\ UNCHANGED exTd
    \/ poweroff_vms /\ UNCHANGED exTd
    \/ teardown_finally /\ UNCHANGED exTd
    \/ remove_vfs /\ td.pc = "remove_vfs" /\ UNCHANGED exVf
    \/ remove_vfs_autoprobe /\ td.pc = "remove_vfs" /\ UNCHANGED exVf
    \/ teardown_remove_vfs_raised /\ UNCHANGED exTd
    \/ teardown_reset_provisioning /\ UNCHANGED exTd
    \/ teardown_cancel_work /\ UNCHANGED exTd
SpecTeardown == Init /\ [][NextTeardown]_vars

\* selecting a vGPU profile from the definitions of a file
NextSelect ==
    \/ query_vgpu_profiles /\ UNCHANGED exCfg
    \/ query_vgpu_schedulers /\ UNCHANGED exCfg
    \/ SelectResources /\ UNCHANGED exCfg
    \/ SelectScheduler /\ UNCHANGED exCfg
    \/ VmmGetVgpuProfile /\ UNCHANGED exCfg
SpecSelect == Init /\ [][NextSelect]_vars

\* calls of the guest-agent client
NextRpc ==
    \/ GuestAgentBackend /\ UNCHANGED exGa
    \/ GuestAgentReply /\ UNCHANGED exGa
    \/ GuestAgentExit /\ UNCHANGED exGa
    \/ GaTick /\ UNCHANGED exGa
    \/ GaCall /\ UNCHANGED exGa
    \/ send_readline /\ UNCHANGED exGa
SpecRpc == Init /\ [][NextRpc]_vars

\* calls of the guest-agent client with suspend_ram, reboot and poweroff among them
NextFire ==
    \/ GuestAgentBackend /\ UNCHANGED exGa
    \/ GuestAgentReply /\ UNCHANGED exGa
    \/ GuestAgentObeys /\ UNCHANGED exGa
    \/ GuestAgentExit /\ UNCHANGED exGa
    \/ GaCallNext /\ UNCHANGED exGa
    \/ GaFireCall /\ UNCHANGED exGa
    \/ fire_write /\ UNCHANGED exGa
    \/ send_readline /\ UNCHANGED exGa
SpecFire == Init /\ [][NextFire]_vars

\* reading and writing a file of the guest
NextFile ==
    \/ GuestAgentBackend /\ UNCHANGED exGa
    \/ GuestAgentReply /\ UNCHANGED exGa
    \/ GuestAgentExit /\ UNCHANGED exGa
    \/ send_readline /\ UNCHANGED exGa
    \/ file_content_open /\ UNCHANGED exGa
    \/ file_content_opened /\ UNCHANGED exGa
    \/ file_content_io /\ UNCHANGED exGa
    \/ file_content_closed /\ UNCHANGED exGa
SpecFile == Init /\ [][NextFile]_vars

\* ------------------------------------------------------------- properties
\* the operation o has returned or raised
Done(o) == pc = "idle" /\ op = o /\ result # "none"
IsStatusReply(m) == "return" \in DOMAIN m /\ In("status", m.return)
StatusReplies(s) == Cardinality({i \in DOMAIN s : IsStatusReply(s[i])})
Resets(s) == Cardinality({i \in DOMAIN s : get_qmp_event(s[i]) = "RESET"})
PopsOf(log) == SelectSeq(log, LAMBDA e : e.k = "pop")
Count(log, e) == Cardinality({i \in DOMAIN log : log[i] = e})
Ping == GaSent(Cmd("guest-ping"))
QueryStatusSent == Sent(Cmd("query-status"))

\* C1: within one connection the messages come out of the response queue in the order
\* the hypervisor wrote them: what the single consumer popped, then what is queued,
\* then what the reader has not read yet, is exactly what was written; the queue
\* only grows at its tail by the reader's put of the next line and only shrinks at
\* its head by a pop.
FifoOrder ==
    /\ [](popped \o qmp_queue \o wire = written)
    /\ [][qmp_queue' # qmp_queue =>
            \/ wire # <<>> /\ qmp_queue' = Append(qmp_queue, Head(wire))
                  /\ wire' = Tail(wire) /\ popped' = popped
            \/ qmp_queue # <<>> /\ qmp_queue' = Tail(qmp_queue)
                  /\ popped' = Append(popped, Head(qmp_queue))]_vars
\* a message was popped by an operation while others are queued and unread
FifoOrderWitness ==
    /\ Len(popped) > 4 /\ Len(qmp_queue) > 1 /\ wire # <<>>
    /\ pc \in {"query_status_get", "count_resets", "wait_event"}

\* C2: with two threads waiting on the same queue a message goes to one waiter only:
\* a status reply the event waiter popped is the one a query_status is still waiting
\* for, and that query_status, whose command is answered and whose reply is gone,
\* stays blocked; the event waiter counts only the RESET events it popped itself, so
\* one popped by query_status is lost to it.
QueryStatusStuck ==
    /\ pc = "query_status_get"
    /\ StatusReplies(qmp_queue \o wire) = 0
    /\ Count(qmpOut, Cmd("query-status")) = 0
TwoWaitersLoseMessages ==
    /\ [](/\ Count(qmpOut, Cmd("query-status")) + StatusReplies(qmp_queue \o wire)
                + StatusReplies(popsB) = (IF pc = "query_status_get" THEN 1 ELSE 0)
          /\ pcB # "idle" => reset_event_countB = ResetEvents - Resets(popsB)
          /\ pcB = "done" <=> Resets(popsB) = ResetEvents)
    /\ [][QueryStatusStuck => QueryStatusStuck']_vars
\* the event waiter popped the only status reply and query_status popped a RESET event:
\* both are blocked on an empty queue and no event is left to come
TwoWaitersWitness ==
    /\ QueryStatusStuck /\ StatusReplies(popsB) = 1
    /\ lastPop = EventMsg("RESET")
    /\ pcB = "count_resets" /\ reset_event_countB > 0
    /\ qmp_queue = <<>> /\ wire = <<>> /\ qmpOut = <<>>
    /\ owed = <<>> /\ evCount = MaxEvents

\* C3: when query_status returns, the message it popped last is a response whose
\* 'return' holds 'status', the status it returns is that one, and the operation wrote
\* query-status once.
QueryStatusResult ==
    pc = "check_status" =>
        /\ opLog # <<>> /\ opLog[Len(opLog)] = Popped(lastPop)
        /\ "return" \in DOMAIN lastPop
        /\ "status" \in DOMAIN lastPop.return
        /\ vm_status = lastPop.return.status
        /\ Count(opLog, QueryStatusSent) = 1
\* pause's query_status returned 'paused'
QueryStatusWitness ==
    pc = "check_status" /\ op = "pause" /\ vm_status = "paused" /\ evCount > 0

\* C4: save_state / load_state do not return normally when the job their command
\* created has concluded with an error.
SnapshotErrorRaised ==
    \A o \in SnapOps :
        Done(o) /\ result = "ok" =>
            \A i \in DOMAIN jobs :
                jobs[i].id = nops - 1 /\ jobs[i].status = "concluded"
                    => "error" \notin DOMAIN jobs[i]

\* C5: a poweron whose deadline expired raised GuestError after terminating the
\* process; so did one whose status was not 'running', unless the VM is a migration
\* destination, whose poweron succeeds whatever status is reported.
PoweronFailure ==
    Done("poweron") =>
        /\ expired => result = "GuestError" /\ terminated >= 1
        /\ vm_status # "" /\ ~migrate_destination_vm /\ vm_status # "running"
              => result = "GuestError" /\ terminated >= 1
        /\ vm_status # "" /\ migrate_destination_vm => result = "ok"
\* the sockets never appeared before the deadline
PoweronFailureWitness ==
    /\ Done("poweron") /\ expired /\ opLog = <<>> /\ ~sockets_exists
    /\ result = "GuestError" /\ terminated = 1

\* C6: when poweroff has returned or raised, the hypervisor process has exited.
PoweroffExited == Done("poweroff") => process = "exited"

\* C7: when the wait for the process's exit in poweroff is over and both sockets
\* exist, poweroff removes both and raises GuestError; when none exists it ends
\* with what the try block left: no error, or the error raised there.
PoweroffSockets ==
    [][pc = "poweroff_communicate" /\ process = "exited" /\ pc' = "idle"
       /\ expired' = expired =>
          /\ gaSock /\ qmpSock => result' = "GuestError" /\ ~gaSock' /\ ~qmpSock'
          /\ ~gaSock /\ ~qmpSock =>
                /\ result' = (IF pending = "" THEN "ok" ELSE pending)
                /\ result' # "GuestError"]_vars
\* poweroff found the sockets of the exited process, removed them and raised
PoweroffSocketsWitness ==
    /\ Done("poweroff") /\ result = "GuestError" /\ process = "exited"
    /\ ~gaSock /\ ~qmpSock

\* C8: pause writes stop and resume writes cont, then query-status; the operation
\* succeeds when the status is 'paused' (pause) or 'running' (resume), otherwise it
\* terminates the process and raises GuestError.
PauseResumeStatus ==
    \A o \in {"pause", "resume"} :
        Done(o) /\ vm_status # "" =>
            /\ opLog[1] = Sent(Cmd(IF o = "pause" THEN "stop" ELSE "cont"))
            /\ opLog[2] = QueryStatusSent
            /\ IF vm_status = (IF o = "pause" THEN "paused" ELSE "running")
               THEN result = "ok"
               ELSE result = "GuestError" /\ terminated >= 1
\* pause succeeded, then resume ended with status 'running' and no error
PauseResumeWitness ==
    /\ Done("resume") /\ result = "ok" /\ vm_status = "running" /\ terminated = 0
    /\ prev.op = "pause" /\ prev.result = "ok" /\ prev.vm_status = "paused"

\* C9: reboot and reset return after the second RESET event popped since their
\* command: the last message popped is that event, and while they wait fewer than
\* two were popped.
TwoResets ==
    \A o \in {"reboot", "reset"} :
        /\ Done(o) /\ result = "ok" =>
              /\ PopsOf(opLog) = <<Popped(EventMsg("RESET")), Popped(EventMsg("RESET"))>>
              /\ lastPop = EventMsg("RESET")
              /\ opLog = (IF o = "reset" THEN <<Sent(Cmd("system_reset"))>>
                          ELSE <<Ping, GaSent(FireCmd("reboot"))>>) \o PopsOf(opLog)
        /\ op = o /\ pc = "count_resets" =>
              /\ Len(PopsOf(opLog)) < 2
              /\ reset_event_count = 2 - Len(PopsOf(opLog))
\* reset returned after its two RESET events; the reply to system_reset, which the
\* hypervisor wrote, was popped and skipped on the way
TwoResetsWitness ==
    /\ Done("reset") /\ result = "ok" /\ Len(PopsOf(opLog)) = 2
    /\ qmpOut = <<>> /\ qmp_queue = <<>> /\ wire = <<>>

\* C10: suspend to RAM enables the suspend target, writes the agent's suspend command,
\* pops SUSPEND and then finds status 'suspended'; wakeup writes system_wakeup, pops
\* WAKEUP and then finds status 'running'; another status terminates the process and
\* raises GuestError; suspend to disk ends with an error without the suspend command
\* and without a pop, with GuestError when nothing else failed.
SuspendWakeup ==
    /\ Done("suspend") /\ result = "ok" =>
          LET n == Len(opLog) IN
          /\ mode = "mem" /\ n >= 7
          /\ SubSeq(opLog, n - 4, n) =
                <<Ping, GaSent(Cmd("guest-suspend-ram")), Popped(EventMsg("SUSPEND")),
                  QueryStatusSent, Popped(lastPop)>>
          /\ opLog[1] = GaSent(ExecLink)
          /\ \A i \in 2..(n - 5) :
                \/ opLog[i] = GaSent(ExecStatus)
                \/ opLog[i] = GaSent(ExecUnmask) /\ i = n - 5
          /\ vm_status = "suspended"
    /\ Done("wakeup") /\ result = "ok" =>
          /\ opLog = <<Sent(Cmd("system_wakeup")), Popped(EventMsg("WAKEUP")),
                       QueryStatusSent, Popped(lastPop)>>
          /\ vm_status = "running"
    /\ \A o \in {"suspend", "wakeup"} :
          Done(o) /\ vm_status # "" /\ vm_status # (IF o = "suspend" THEN "suspended" ELSE "running")
              => result = "GuestError" /\ terminated >= 1
    /\ op = "suspend" /\ mode = "disk" =>
          /\ pc \notin {"ga_ping_recv", "wait_event", "query_status_get", "check_status"}
          /\ Count(opLog, GaSent(Cmd("guest-suspend-ram"))) = 0
          /\ PopsOf(opLog) = <<>>
          /\ pc = "idle" =>
                /\ result \in {"GuestError", "AlarmTimeoutError", "JSONDecodeError",
                               "BrokenPipeError"}
                /\ process = "alive" /\ ~expired => result = "GuestError"
\* suspend to RAM succeeded after the suspend target was unmasked
SuspendWakeupWitness ==
    /\ Done("suspend") /\ result = "ok" /\ vm_status = "suspended"
    /\ Count(opLog, GaSent(ExecUnmask)) = 1


\* C12: once a decorated method has completed (it returned, raised, or its
\* deadline expired) no timer is pending, and a timer pending while a method runs
\* was armed by the decorated call in progress, so no call is interrupted by the
\* deadline of an earlier one.
GuardDisarmed ==
    /\ wpc = "idle" => itimer = 0
    /\ wpc = "plain" => itimer = 0
    /\ itimer > 0 => armedBy = wcalls

\* a decorated method ended by its deadline, an undecorated one follows and is
\* running with no timer pending
GuardDisarmedWitness ==
    /\ wpc = "plain" /\ wfunc = "pause" /\ wcalls = 2
    /\ armedBy = 1 /\ wresult = "AlarmTimeoutError" /\ itimer = 0

\* C13: the deadline the wrapper arms is the timeout the caller supplied to the
\* decorated method, positionally or by keyword, and the default only when the
\* caller supplied none.
\* ping(timeout) passed positionally is args[1], which the wrapper never reads.
TimeoutHonoured ==
    wpc = "func" => timeout = Supplied(wfunc, wargs, wkwargs)

\* C14: when the deadline expires during poweron, poweroff, save_state or
\* load_state, the hypervisor process is terminated and the operation raises
\* GuestError.
\* save_state and load_state have no handler: the expiry leaves the process running.
TimeoutTerminates ==
    (pc = "idle" /\ op \in Decorated /\ expired)
        => (terminated > 0 /\ IsGuestError(result))

\* C15: poweron on a VM whose hypervisor process is alive is a no-op: it returns
\* at once, no process is spawned, the clients and their connections are kept and
\* nothing is written to either socket.
PoweronNoop ==
    [][(op = "poweron" /\ pc = "poweron" /\ process = "alive" /\ pc' # pc)
          => /\ pc' = "idle" /\ result' = "ok"
             /\ UNCHANGED <<process, terminated, clients, connected, gaSock, qmpSock>>
             /\ UNCHANGED <<qmpOut, gaOut, opLog>>]_vars

\* a second poweron returned on the VM the first one started
PoweronNoopWitness ==
    /\ Done("poweron") /\ result = "ok" /\ opLog = <<>>
    /\ prev.op = "poweron" /\ prev.result = "ok"
    /\ process = "alive" /\ connected /\ clients /\ terminated = 0

\* C16: the clients poweron created are invalidated by poweroff: no operation
\* called after a poweroff uses them.
\* poweroff keeps self.ga and self.qm: pause called after a clean poweroff writes
\* its command to the old management connection, whose peer is gone.
StaleClientsUnused ==
    ~(/\ prev.op = "poweroff" /\ prev.result = "ok"
      /\ op = "pause" /\ pc = "idle" /\ result = "BrokenPipeError"
      /\ clients /\ process = "exited")

\* C17: whatever the VF count was and whatever n is, when remove_vfs() returns
\* after create_vf(n) the device has no VFs and driver autoprobe is enabled.
CreateRemove ==
    (dev_pc = "idle" /\ dev_op = "remove_vfs" /\ dev_result = "ok"
        /\ dev_hist.op = "create_vf")
        => (sriov_numvfs = 0 /\ sriov_drivers_autoprobe = 1 /\ dev_ret = 0)

\* create_vf enabled all VFs and disabled autoprobe, remove_vfs then returned
CreateRemoveWitness ==
    /\ dev_pc = "idle" /\ dev_op = "remove_vfs" /\ dev_result = "ok"
    /\ dev_hist = [op |-> "create_vf", result |-> "ok", vfs |-> TotalVfs]
    /\ sriov_numvfs = 0 /\ sriov_drivers_autoprobe = 1

\* C18: create_vf(n) removes active VFs first, so the VF count is 0 from then
\* until n is written; autoprobe is disabled when n is written; and when
\* create_vf returns it returns n, the VF count is n and autoprobe is disabled.
CreateVfOrder ==
    /\ dev_pc \in {"create_vf_autoprobe", "create_vf_write"} => sriov_numvfs = 0
    /\ dev_pc = "create_vf_write" => sriov_drivers_autoprobe = 0
    /\ (dev_pc = "idle" /\ dev_op = "create_vf" /\ dev_result = "ok")
          => (dev_ret = num /\ sriov_numvfs = num /\ sriov_drivers_autoprobe = 0)

\* create_vf(TotalVfs) returned on a device that had one VF enabled
CreateVfOrderWitness ==
    /\ dev_pc = "idle" /\ dev_op = "create_vf" /\ dev_result = "ok"
    /\ nested /\ dev_hist.vfs = 1 /\ num = TotalVfs /\ sriov_numvfs = TotalVfs

\* C19: a readback that differs from the value written makes the method fail
\* with HostError: no Device method ends with any other exception.
\* create_vf checks its readback with `assert`.
ReadbackMismatch ==
    dev_pc = "idle" => dev_result \in {"none", "ok", "HostError"}

\* C20: after provision(profile) and then reset_provisioning(profile.num_vfs),
\* on every GT the PF policy fields, the PF execution quantum and preemption
\* timeout and the PF doorbell spare are zero, every VF 1..num_vfs has context,
\* doorbell, GGTT and LMEM quota zero, and the scheduling priority is the lowest.
\* Neither method writes the PF doorbell spare: set_doorbells_quota does nothing
\* for the PF.
ProvisionReset ==
    (/\ prov_op = "reset_provisioning" /\ prov_result = "ok"
     /\ prov_hist = [op |-> "provision", result |-> "ok"])
    => \A g \in 0..(num_gts - 1) :
         /\ \A a \in {"sched_if_idle", "reset_engine", "exec_quantum_ms",
                       "preempt_timeout_us", "doorbells_spare"} : debugfs[<<g, 0, a>>] = 0
         /\ \A vf \in 1..prov_arg :
              \A a \in {"contexts_quota", "doorbells_quota", "ggtt_quota", "lmem_quota"} :
                 get_quota(debugfs, a, vf, g, has_lmem) = 0
         /\ get_pf_sched_priority(g) = LOW

\* C21: a provision that succeeded wrote the quotas (lmem, ggtt, contexts, doorbells) and
\* the execution quantum and preemption timeout of VF v on exactly these GTs, for every v
\* in 1..num_vfs and for no other VF: GT0 on a single-tile device; GT0 and GT1 on a
\* multi-tile device with one VF; GT0 for odd v and GT1 for even v on a multi-tile device
\* with several VFs.
VfGtsClaimed(v) ==
    IF num_gts = 1 THEN {0}
    ELSE IF prov_arg = 1 THEN {0, 1}
    ELSE IF v % 2 = 1 THEN {0} ELSE {1}
ProvisionVfWrites ==
    (prov_logging /\ prov_op = "provision" /\ prov_result = "ok")
    => \A v \in 1..TotalVfs, g \in Gts, a \in VfAttrs :
          (<<g, v, a>> \in prov_log.written) <=> (v <= prov_arg /\ g \in VfGtsClaimed(v))
\* C21, amended: the same, the lmem quota being written only on a device with local memory
ProvisionVfWritesLmem ==
    (prov_logging /\ prov_op = "provision" /\ prov_result = "ok")
    => \A v \in 1..TotalVfs, g \in Gts, a \in VfAttrs :
          (<<g, v, a>> \in prov_log.written)
          <=> (/\ v <= prov_arg
               /\ g \in VfGtsClaimed(v)
               /\ (a = "lmem_quota" => has_lmem))
ProvisionVfWritesWitness ==
    /\ prov_logging /\ prov_op = "provision" /\ prov_result = "ok"
    /\ num_gts > 1 /\ prov_arg = 2 /\ has_lmem
    /\ <<0, 1, "lmem_quota">> \in prov_log.written
    /\ <<1, 2, "lmem_quota">> \in prov_log.written
    /\ <<1, 1, "ggtt_quota">> \notin prov_log.written

\* C22: a provision that succeeded wrote, on every GT it provisions (GT0 on a single-tile
\* device, else GT0 and GT1), the PF scheduling policy and the PF execution quantum and
\* preemption timeout of the profile, and the PF doorbell spare on each of those GTs equals
\* profile.resources.pfDoorbells.
ProvisionPfWrites ==
    (prov_logging /\ prov_op = "provision" /\ prov_result = "ok")
    => \A g \in (IF num_gts = 1 THEN {0} ELSE {0, 1}) :
          LET profile == prov_log.profile
          IN  /\ debugfs[<<g, 0, "sched_if_idle">>] = IntOf(profile.scheduler.scheduleIfIdle)
              /\ debugfs[<<g, 0, "exec_quantum_ms">>] = profile.scheduler.pfExecutionQuanta
              /\ debugfs[<<g, 0, "preempt_timeout_us">>]
                     = profile.scheduler.pfPreemptionTimeout
              /\ debugfs[<<g, 0, "doorbells_spare">>] = profile.resources.pfDoorbells

\* the VF resources of a configuration are those of a VF profile of the file
VfResourcesOf(config, vf_resource) ==
    /\ config.vfLmem = vf_resource.local_memory_ecc_on
    /\ config.vfContexts = vf_resource.contexts
    /\ config.vfDoorbells = vf_resource.doorbells
    /\ config.vfGgtt = vf_resource.ggtt_size
\* the VF profiles of the file whose VF count is in lo..hi
VfEntries(lo, hi) ==
    {i \in DOMAIN supported_vgpu_profiles.vf_resources :
        /\ supported_vgpu_profiles.vf_resources[i].vf_count >= lo
        /\ supported_vgpu_profiles.vf_resources[i].vf_count <= hi}

\* C23: whatever the order of the VF profiles in the file, when a profile with exactly
\* the requested VF count exists, select_vgpu_resources_profile returns the VF resources
\* (lmem, contexts, doorbells, ggtt) of a profile with that count, never those of another.
ExactProfileSelected ==
    LET N == cfg_call.requested_num_vfs
    IN  (cfg_call.op = "select_vgpu_resources_profile" /\ VfEntries(N, N) # {})
        => /\ cfg_call.raised = "none"
           /\ \E i \in VfEntries(N, N) :
                 VfResourcesOf(cfg_result, supported_vgpu_profiles.vf_resources[i])

\* C24: when no VF profile has exactly the requested count N and some have a count in
\* (N, N+2], select_vgpu_resources_profile returns the VF resources of a profile with the
\* smallest such count.
NearestProfileSelected ==
    LET N == cfg_call.requested_num_vfs
        vf_resources == supported_vgpu_profiles.vf_resources
    IN  (/\ cfg_call.op = "select_vgpu_resources_profile"
         /\ VfEntries(N, N) = {} /\ VfEntries(N + 1, N + 2) # {})
        => /\ cfg_call.raised = "none"
           /\ \E i \in VfEntries(N + 1, N + 2) :
                 /\ \A j \in VfEntries(N + 1, N + 2) :
                       vf_resources[i].vf_count <= vf_resources[j].vf_count
                 /\ VfResourcesOf(cfg_result, vf_resources[i])

\* C25: selection (select_vgpu_resources_profile, and get_vgpu_profile of the test setup
\* through it) fails with VgpuProfileError and returns no profile when no VF profile has
\* a count in [N, N+2], and never fails so when one has.
ProfileNotFound ==
    LET N == cfg_call.requested_num_vfs
    IN  (cfg_call.op \in {"select_vgpu_resources_profile", "get_vgpu_profile"})
        => /\ VfEntries(N, N + 2) = {}
                => (cfg_call.raised = "VgpuProfileError" /\ cfg_result = <<>>)
           /\ VfEntries(N, N + 2) # {} => cfg_call.raised # "VgpuProfileError"
           /\ (cfg_call.op = "select_vgpu_resources_profile" /\ VfEntries(N, N + 2) # {})
                => cfg_call.raised = "none"
ProfileNotFoundWitness ==
    /\ cfg_call.op = "get_vgpu_profile" /\ cfg_call.raised = "VgpuProfileError"
    /\ Len(supported_vgpu_profiles.vf_resources) = 3
    /\ \A i \in 1..3 : supported_vgpu_profiles.vf_resources[i].vf_count = 2 ^ (i - 1)
    /\ cfg_call.requested_num_vfs = 5

\* C26: scheduler selection. Mode INFINITE gives a scheduler configuration with every
\* field zero or false; DEFAULT_PROFILE gives what naming the default scheduler profile
\* of the file gives; a named profile of the file gives its schedule-if-idle and PF
\* quantum and timeout as they are, and VF quantum and timeout equal to its formulas
\* evaluated at the requested number of VFs.
SchedulerOf(config, scheduler, VFs) ==
    /\ config.scheduleIfIdle = scheduler.schedule_if_idle
    /\ config.pfExecutionQuanta = scheduler.pf_execution_quanta
    /\ config.pfPreemptionTimeout = scheduler.pf_preemption_timeout
    /\ config.vfExecutionQuanta = eval(scheduler.vf_execution_quanta)[VFs]
    /\ config.vfPreemptionTimeout = eval(scheduler.vf_preemption_timeout)[VFs]
SchedulerNamed(config, name, VFs) ==
    \A i \in DOMAIN supported_vgpu_profiles.scheduler_configs :
        supported_vgpu_profiles.scheduler_configs[i].profile_name = name
        => SchedulerOf(config, supported_vgpu_profiles.scheduler_configs[i], VFs)
SchedulerSelected ==
    LET N == cfg_call.requested_num_vfs
        requested == cfg_call.requested_scheduler
        returned == cfg_call.raised = "none"
        config == IF cfg_call.op = "get_vgpu_profile" THEN cfg_result.scheduler
                  ELSE cfg_result
    IN  (cfg_call.op \in {"select_vgpu_scheduler_profile", "get_vgpu_profile"} /\ returned)
        => /\ requested = INFINITE
                => /\ ~config.scheduleIfIdle
                   /\ config.pfExecutionQuanta = 0 /\ config.pfPreemptionTimeout = 0
                   /\ config.vfExecutionQuanta = 0 /\ config.vfPreemptionTimeout = 0
           /\ (requested = DEFAULT_PROFILE /\ cfg_call.op = "get_vgpu_profile")
                => SchedulerNamed(config, supported_vgpu_profiles.scheduler_config_default, N)
           /\ requested \notin {INFINITE, DEFAULT_PROFILE} => SchedulerNamed(config, requested, N)
SchedulerSelectedWitness ==
    /\ cfg_call.op = "get_vgpu_profile" /\ cfg_call.raised = "none"
    /\ cfg_call.requested_scheduler = DEFAULT_PROFILE
    /\ cfg_call.requested_num_vfs = 3
    /\ Len(supported_vgpu_profiles.scheduler_configs) = 2
    /\ supported_vgpu_profiles.scheduler_configs[2].profile_name
           = supported_vgpu_profiles.scheduler_config_default
    /\ supported_vgpu_profiles.scheduler_configs[2].vf_execution_quanta
           = "lambda VFs : 8 // VFs"
    /\ cfg_result.scheduler.vfExecutionQuanta = 2
    /\ cfg_result.scheduler.pfExecutionQuanta = 20

\* C27: every request/response call of the guest-agent client (sync, ping, execute,
\* execute_status, guest_file_open/read/write/close) writes exactly one JSON object with
\* the fields 'execute' and 'arguments' and then consumes exactly one line of the socket,
\* which it returns decoded.
OneRequestOneLine ==
    /\ ga_pc = "readline"
          => /\ Len(ga_call.wrote) = 1 /\ ga_call.read = <<>>
             /\ DOMAIN loads(ga_call.wrote[1]) = {"execute", "arguments"}
    /\ (ga_pc = "idle" /\ ga_call.method # "none" /\ ga_raised = "none")
          => /\ Len(ga_call.wrote) = 1
             /\ DOMAIN loads(ga_call.wrote[1]) = {"execute", "arguments"}
             /\ Len(ga_call.read) = 1
             /\ ga_ret = loads(ga_call.read[1])
OneRequestOneLineWitness ==
    /\ ga_pc = "idle" /\ ga_call.method = "ping" /\ ga_raised = "none"
    /\ ga_calls = 2 /\ ga_rx = <<>> /\ ga_tx = <<>>
    /\ ga_ret = [return |-> EmptyDict]

\* C28: a call whose response never arrives does not wait longer than the timeout the
\* client was constructed with.
ReadBounded == ga_pc = "readline" => ga_waited <= ga_timeout

\* C29: a response with an 'error' field is returned to the caller as it is and nothing
\* is raised for it; the only exception that leaves a call is the GuestAgentError of the
\* read timeout.
OnlyTimeoutRaised ==
    (ga_pc = "idle" /\ ga_call.method # "none")
    => /\ (ga_call.read # <<>> /\ ga_call.read[1] # EmptyLine
            /\ "error" \in DOMAIN loads(ga_call.read[1]))
          => (ga_raised = "none" /\ ga_ret = loads(ga_call.read[1]))
       /\ ga_raised \in {"none", "GuestAgentError"}

\* C30: in read_file_content and write_file_content a guest_file_open that returned a
\* handle is followed by exactly one guest_file_close of that handle before the method
\* returns or raises, also when a read or write fails or its reply lacks the expected
\* fields; when open returns no handle, GuestError is raised and no read, write or close
\* is made.
FileCloses ==
    {i \in DOMAIN fc_log : fc_log[i].command = "guest-file-close"}
FileHandleClosed ==
    /\ (fc_op # "none" /\ fc_pc \in {"open", "io"}) => FileCloses = {}
    /\ (fc_op # "none" /\ fc_pc \in {"idle", "close"} /\ fc_handle # 0)
          => /\ FileCloses = {Len(fc_log)}
             /\ fc_log[Len(fc_log)].handle = fc_handle
             /\ \A i \in 2..Len(fc_log) : fc_log[i].handle = fc_handle
    /\ (fc_op # "none" /\ fc_pc = "idle" /\ fc_handle = 0)
          => /\ Len(fc_log) = 1 /\ fc_log[1].command = "guest-file-open"
             /\ fc_result # "ok"
             /\ ga_raised = "none" => fc_result = "GuestError"
FileHandleClosedWitness ==
    /\ fc_op = "read_file_content" /\ fc_pc = "idle" /\ fc_result = "ValueError"
    /\ fc_handle = 1001
    /\ Len(fc_log) = 3
    /\ fc_log[2] = [command |-> "guest-file-read", handle |-> 1001]
    /\ fc_log[3] = [command |-> "guest-file-close", handle |-> 1001]

\* C31: the status and error query_jobs(t) returned are those of a job of type t listed
\* in the message it popped, and that message is a reply listing jobs, never another
\* message.
QueryJobsResult ==
    \A o \in SnapOps :
        (/\ Done(o) /\ result \in {"ok", "GuestError"}
         /\ Count(opLog, Sent(Cmd("query-jobs"))) = 1)
        => LET qmp_msg == opLog[Len(opLog)].m
           IN  /\ "return" \in DOMAIN qmp_msg
               /\ IsList(qmp_msg.return)
               /\ \E i \in DOMAIN qmp_msg.return.list :
                     LET param == qmp_msg.return.list[i]
                     IN  /\ Get(param, "type", None) = JobType(o)
                         /\ Get(param, "status", None) = job_status
                         /\ Get(param, "error", None) = job_error

\* C32: save_snapshot and load_snapshot send query-named-block-nodes first and the
\* snapshot-save / snapshot-load command afterwards, and the 'vmstate' and 'devices' of
\* that command name the qcow2 block node the hypervisor reports, whatever is in the
\* queue when the call starts.
SnapshotNamesNode ==
    \A i \in DOMAIN opLog :
        (opLog[i].k = "qmp" /\ opLog[i].c.execute \in {"snapshot-save", "snapshot-load"})
        => /\ \E j \in 1..(i - 1) : opLog[j] = Sent(Cmd("query-named-block-nodes"))
           /\ opLog[i].c.arguments.vmstate = BlockNode["node-name"]
           /\ opLog[i].c.arguments.devices = <<BlockNode["node-name"]>>

\* the poweroff steps of the given VMs in their order
RECURSIVE Poweroffs(_, _)
Poweroffs(i, running) ==
    IF i > NumVms THEN <<>>
    ELSE (IF i \in running THEN <<Step_("poweroff", i)>> ELSE <<>>)
         \o Poweroffs(i + 1, running)

\* C33: a teardown that has ended has powered off every running VM, then read the
\* VF count, called remove_vfs, reset_provisioning with that count and cancel_work, in
\* this order, whether or not a poweroff raised, and has unloaded the host drivers
\* after that if a poweroff failed.
TeardownOrder ==
    td.pc = "done"
    => LET offs == Poweroffs(1, td.running)
           n == Len(offs)
       IN  /\ Len(td.log) >= n + 4
           /\ SubSeq(td.log, 1, n + 4)
                = offs \o <<Step_("get_current_vfs", td.num_vfs), Step_("remove_vfs", 0),
                            Step_("reset_provisioning", td.num_vfs),
                            Step_("cancel_work", 0)>>
           /\ td.failed # {}
                => /\ Len(td.log) = n + 5
                   /\ td.log[n + 5] = Step_("unload_drivers", 0)

\* C34: query_status consumes every message queued ahead of the status reply and
\* drops it: the message leaves the queue for good, no event wait counts it, and an
\* event wait only ever observes the message that is at the head of the queue now, so
\* an event dropped by query_status is never seen by a later wait.
StatusDropsEvents ==
    /\ [](Resets(popped) + Resets(qmp_queue) + Resets(wire) = Resets(written))
    /\ [][Len(popped') > Len(popped) =>
            /\ qmp_queue # <<>>
            /\ popped' = Append(popped, Head(qmp_queue))
            /\ qmp_queue' = Tail(qmp_queue)
            /\ pc = "query_status_get" =>
                  /\ reset_event_count' = reset_event_count
                  /\ pc' = IF IsStatusReply(Head(qmp_queue)) THEN "check_status"
                           ELSE "query_status_get"]_vars
    /\ [][reset_event_count' < reset_event_count =>
            /\ pc = "count_resets"
            /\ Len(popped') > Len(popped)
            /\ get_qmp_event(Head(qmp_queue)) = "RESET"]_vars

\* a RESET event was dropped by the query_status of pause, and the reset that followed
\* returned after two further RESET events
StatusDropsEventsWitness ==
    /\ Done("reset") /\ result = "ok"
    /\ prev.op = "pause"
    /\ Resets(popped) = ResetEvents + 1

\* C35: with suspend_ram, reboot and poweroff among the calls, every request/response
\* call that returns has read an answer the agent gives to the command of that call,
\* never the answer the agent gave to an earlier guest-suspend-ram or guest-shutdown.
ReplyOfRequest ==
    (/\ ga_pc = "idle" /\ ga_raised = "none"
     /\ ga_call.method \in {m.method : m \in GaMethods \cup GaFileMethods})
    => ga_ret \in AgentReplies(loads(ga_call.wrote[1]))

\* C36: when pause or resume has ended with GuestError after terminating the
\* hypervisor process, is_running() is false, so that a following poweron spawns a
\* new process.
TerminatedNotRunning ==
    \A o \in PauseOps :
        (Done(o) /\ result = "GuestError" /\ terminated > 0) => ~is_running

\* the resource value provision writes to a quota attribute of a VF
QuotaOf(resources, a) ==
    CASE a = "lmem_quota" -> resources.vfLmem
      [] a = "ggtt_quota" -> resources.vfGgtt
      [] a = "contexts_quota" -> resources.vfContexts
      [] a = "doorbells_quota" -> resources.vfDoorbells
QuotaAttrs == {"lmem_quota", "ggtt_quota", "contexts_quota", "doorbells_quota"}

SchedulerNotFound ==
    LET N == cfg_call.requested_num_vfs
        defs == supported_vgpu_profiles
        resolved == IF /\ cfg_call.op = "get_vgpu_profile"
                       /\ cfg_call.requested_scheduler = DEFAULT_PROFILE
                    THEN defs.scheduler_config_default
                    ELSE cfg_call.requested_scheduler
        named == {i \in DOMAIN defs.scheduler_configs :
                     defs.scheduler_configs[i].profile_name = resolved}
    IN  /\ (cfg_call.op = "select_vgpu_scheduler_profile" /\ named = {})
            => /\ cfg_call.raised = "none"
               /\ cfg_result = VgpuSchedulerConfig
               /\ cfg_result = select_vgpu_scheduler_profile(defs, N, INFINITE)
        /\ (/\ cfg_call.op = "get_vgpu_profile" /\ named = {}
             /\ resolved \in VfSchedulingMode /\ VfEntries(N, N + 2) # {})
            => /\ cfg_call.raised = "none"
               /\ cfg_result.scheduler = VgpuSchedulerConfig

\* the default of the file names a scheduler profile the file does not have, beside
\* one it has
SchedulerNotFoundWitness ==
    /\ cfg_call.op = "get_vgpu_profile" /\ cfg_call.raised = "none"
    /\ cfg_call.requested_scheduler = DEFAULT_PROFILE
    /\ supported_vgpu_profiles.scheduler_config_default = "Flexible_30fps_GPUTimeSlicing"
    /\ Len(supported_vgpu_profiles.scheduler_configs) = 1
    /\ supported_vgpu_profiles.scheduler_configs[1].profile_name
           = "Fixed_30fps_GPUTimeSlicing"
    /\ cfg_result.scheduler = VgpuSchedulerConfig

\* a reset_provisioning that returned, after a provision that returned
ProvisionedAndReset ==
    /\ prov_logging /\ prov_op = "reset_provisioning" /\ prov_result = "ok"
    /\ prov_hist = [op |-> "provision", result |-> "ok"]

ResetCoversProvision ==
    ProvisionedAndReset
    => \A p \in Paths : debugfs[p] # 0 => p[1] \in 0..(num_gts - 1)

\* C11: every operation that blocks on an event, status or job wait runs under
\* the timeout guard, so an operation whose awaited message can never arrive
\* (the hypervisor has exited, nothing is left on the socket or in the queue)
\* still has its deadline armed and will be interrupted.
\* reboot, reset and quit are not decorated: they wait with no deadline.
WaitsGuarded ==
    (/\ pc \in {"count_resets", "wait_event"}
     /\ process = "exited" /\ wire = <<>> /\ qmp_queue = <<>>) => alarm

====
